---- MODULE Spec2Model ----
(***************************************************************************)
(* The chessplaza session loop (src/chessplaza/__main__.py): one model     *)
(* client, a Park phase that selects a hustler and a Dialog phase with a   *)
(* two-step leave confirmation.                                            *)
(*                                                                         *)
(* Text is a sequence of one-character strings.  A model reply is a        *)
(* sequence of tokens: Fence is the three-backquote marker, "json" the     *)
(* word after it, " " and the other one-character strings stand for        *)
(* themselves, and a token in DOMAIN JsonDocs stands for the text of one   *)
(* complete JSON document.                                                 *)
(***************************************************************************)
EXTENDS Integers, Sequences, FiniteSets, TLC

\* most user inputs (click.prompt calls) of one session explored
MaxInputs == 4

----------------------------------------------------------------------------
(* str helpers *)

UpperChars == <<"A","B","C","D","E","F","G","H","I","J","K","L","M",
                "N","O","P","Q","R","S","T","U","V","W","X","Y","Z">>
LowerChars == <<"a","b","c","d","e","f","g","h","i","j","k","l","m",
                "n","o","p","q","r","s","t","u","v","w","x","y","z">>

\* str.lower() on one character
LowerChar(c) ==
  IF \E i \in 1..26 : UpperChars[i] = c
  THEN LowerChars[CHOOSE i \in 1..26 : UpperChars[i] = c]
  ELSE c

\* str.lower()
lower(text) == [i \in 1..Len(text) |-> LowerChar(text[i])]

\* phrase in text
Contains(text, phrase) ==
  \E i \in 1..(Len(text) + 1) :
    /\ i + Len(phrase) - 1 <= Len(text)
    /\ SubSeq(text, i, i + Len(phrase) - 1) = phrase

\* text.startswith(prefix)
startswith(text, prefix) ==
  /\ Len(prefix) <= Len(text)
  /\ SubSeq(text, 1, Len(prefix)) = prefix

\* text.endswith(suffix)
endswith(text, suffix) ==
  /\ Len(suffix) <= Len(text)
  /\ SubSeq(text, Len(text) - Len(suffix) + 1, Len(text)) = suffix

\* text.replace(old, ""): every non-overlapping occurrence, left to right
RECURSIVE replace_with_empty(_, _)
replace_with_empty(text, old) ==
  IF Len(text) < Len(old) THEN text
  ELSE IF SubSeq(text, 1, Len(old)) = old
       THEN replace_with_empty(SubSeq(text, Len(old) + 1, Len(text)), old)
       ELSE <<Head(text)>> \o replace_with_empty(Tail(text), old)

IsSpace(c) == c \in {" ", "\n"}

\* text.strip()
RECURSIVE lstrip(_)
lstrip(text) ==
  IF text # <<>> /\ IsSpace(Head(text)) THEN lstrip(Tail(text)) ELSE text

RECURSIVE rstrip(_)
rstrip(text) ==
  IF text # <<>> /\ IsSpace(text[Len(text)])
  THEN rstrip(SubSeq(text, 1, Len(text) - 1))
  ELSE text

strip(text) == rstrip(lstrip(text))

----------------------------------------------------------------------------
(* literals of the source *)

S_leave     == <<"l","e","a","v","e">>
S_exit      == <<"e","x","i","t">>
S_quit      == <<"q","u","i","t">>
S_go_home   == <<"g","o"," ","h","o","m","e">>
S_goodbye   == <<"g","o","o","d","b","y","e">>
S_bye       == <<"b","y","e">>
S_im_out    == <<"i","'","m"," ","o","u","t">>
S_gotta_go  == <<"g","o","t","t","a"," ","g","o">>

S_approach  == <<"a","p","p","r","o","a","c","h","_">>
S_select_hustler == <<"s","e","l","e","c","t","_","h","u","s","t","l","e","r">>
S_continue  == <<"c","o","n","t","i","n","u","e">>
S_stay      == <<"s","t","a","y">>
S_leaving_park     == <<"l","e","a","v","i","n","g","_","p","a","r","k">>
S_leaving_opponent == <<"l","e","a","v","i","n","g","_",
                        "o","p","p","o","n","e","n","t">>

S_eddie  == <<"e","d","d","i","e">>
S_viktor == <<"v","i","k","t","o","r">>
S_mei    == <<"m","e","i">>
S_marco  == <<"m","a","r","c","o">>

\* the registry after the four _register calls of hustler.py
HUSTLERS ==
  (S_eddie  :> [id |-> S_eddie,  name |-> "Fast Eddie",
                voice |-> "en-US-GuyNeural"]) @@
  (S_viktor :> [id |-> S_viktor, name |-> "Viktor",
                voice |-> "en-US-ChristopherNeural"]) @@
  (S_mei    :> [id |-> S_mei,    name |-> "Mei",
                voice |-> "en-US-AnaNeural"]) @@
  (S_marco  :> [id |-> S_marco,  name |-> "Marco",
                voice |-> "en-US-GuyNeural"])

\* Hustler | None: the None of the park phase
None == [id |-> <<>>, name |-> "", voice |-> ""]

leave_phrases == <<S_leave, S_exit, S_quit, S_go_home, S_goodbye, S_bye,
                   S_im_out, S_gotta_go>>

\* the check without text.lower()
_is_leaving_park_case_sensitive(text) ==
  \E k \in 1..Len(leave_phrases) : Contains(text, leave_phrases[k])

\* any(phrase in text.lower() for phrase in leave_phrases)
_is_leaving_park(text) ==
  \E k \in 1..Len(leave_phrases) : Contains(lower(text), leave_phrases[k])

----------------------------------------------------------------------------
(* JSON values as json.loads returns them *)

Str(s) == [t |-> "str", v |-> s]
JsonNull == [t |-> "null", v |-> <<>>]
JsonNum  == [t |-> "num", v |-> <<>>]   \* a non-zero number
JsonArr  == [t |-> "arr", v |-> <<>>]   \* a non-empty list
Obj(d)   == [t |-> "obj", v |-> d]

\* bool(x) of Python
Truthy(x) ==
  CASE x.t = "str"  -> x.v # <<>>
    [] x.t = "null" -> FALSE
    [] OTHER        -> TRUE

\* response.get(key, default) on a dict
Get(response, key, default) ==
  IF key \in DOMAIN response.v THEN response.v[key] ELSE default

ParkEvent(speaker, spoken, next_action) ==
  Obj(("narrative" :> Str(<<"n">>)) @@ ("speaker" :> Str(speaker)) @@
      ("spoken_display" :> Str(spoken)) @@ ("spoken_tts" :> Str(spoken)) @@
      ("next_action" :> next_action))

DialogEvent(player_intent) ==
  Obj(("narrative" :> Str(<<"n">>)) @@ ("spoken_display" :> Str(<<"s">>)) @@
      ("spoken_tts" :> Str(<<"s">>)) @@ ("player_intent" :> player_intent))

\* the JSON documents the model may answer with, by the token that stands
\* for their text
JsonDocs ==
  ("{select_hustler}"  :> ParkEvent(<<>>, <<>>, Str(S_select_hustler))) @@
  ("{approach_eddie}"  :> ParkEvent(S_eddie, <<"s">>,
                                    Str(S_approach \o S_eddie))) @@
  ("{approach_viktor}" :> ParkEvent(<<>>, <<>>,
                                    Str(S_approach \o S_viktor))) @@
  ("{approach_bob}"    :> ParkEvent(<<"b","o","b">>, <<"s">>,
                                    Str(S_approach \o <<"b","o","b">>))) @@
  ("{approach_approach_eddie}" :>
      ParkEvent(<<>>, <<>>, Str(S_approach \o S_approach \o S_eddie))) @@
  ("{narrative}"       :> Obj("narrative" :> Str(<<"n">>))) @@
  ("{next_action:null}" :> ParkEvent(<<>>, <<>>, JsonNull)) @@
  ("{continue}"         :> DialogEvent(Str(S_continue))) @@
  ("{stay}"             :> DialogEvent(Str(S_stay))) @@
  ("{leaving_park}"     :> DialogEvent(Str(S_leaving_park))) @@
  ("{leaving_opponent}" :> DialogEvent(Str(S_leaving_opponent))) @@
  ("{player_intent:null}" :> DialogEvent(JsonNull)) @@
  ("{fen}" :> Obj(("narrative" :> Str(<<"n">>)) @@
                  ("spoken_display" :> Str(<<"s">>)) @@
                  ("spoken_tts" :> Str(<<"s">>)) @@
                  ("player_intent" :> Str(S_continue)) @@
                  ("fen" :> Str(<<"start", "b">>)) @@
                  ("game_status" :> Str(<<"ongoing">>)) @@
                  ("player_move" :> Str(<<"e","4">>)) @@
                  ("hustler_move" :> Str(<<"e","5">>)))) @@
  ("[1]"                :> JsonArr)

\* the markdown code fence: three backquotes
Fence == "<fence>"

\* the texts a model reply is drawn from
ModelOutputs ==
  { <<d>> : d \in DOMAIN JsonDocs } \cup
  { <<Fence, "json", "\n", "{leaving_park}", "\n", Fence>>,
    <<" ", "{approach_eddie}", "\n">>,
    <<"O", "k">>,
    <<Fence, "\n", "O", "k", "\n", Fence, "\n">>,
    <<Fence, "json", Fence, "{continue}", Fence>>,
    <<>> }

\* json.loads(text): the decoded document, or JSONDecodeError
JSONDecodeError == [t |-> "JSONDecodeError", v |-> <<>>]

json_loads(text) ==
  IF Len(text) = 1 /\ text[1] \in DOMAIN JsonDocs
  THEN JsonDocs[text[1]]
  ELSE JSONDecodeError

\* lines 283-291: the text json.loads is called on
clean(full_text) ==
  LET text0 == strip(full_text)
      text1 == IF startswith(text0, <<Fence, "json">>)
               THEN SubSeq(text0, 3, Len(text0)) ELSE text0
      text2 == IF startswith(text1, <<Fence>>)
               THEN SubSeq(text1, 2, Len(text1)) ELSE text1
      text3 == IF endswith(text2, <<Fence>>)
               THEN SubSeq(text2, 1, Len(text2) - 1) ELSE text2
  IN  strip(text3)

\* the fallback built from the cleaned text instead of full_text
_get_response_fallback_cleaned(full_text) ==
  LET decoded == json_loads(clean(full_text))
  IN  IF decoded = JSONDecodeError
      THEN Obj(("narrative" :> Str(<<>>)) @@
               ("spoken_display" :> Str(clean(full_text))) @@
               ("spoken_tts" :> Str(clean(full_text))) @@
               ("player_intent" :> Str(S_continue)))
      ELSE decoded

\* _get_response, from the complete text of the reply on
_get_response(full_text) ==
  LET decoded == json_loads(clean(full_text))
  IN  IF decoded = JSONDecodeError
      THEN Obj(("narrative" :> Str(<<>>)) @@
               ("spoken_display" :> Str(full_text)) @@
               ("spoken_tts" :> Str(full_text)) @@
               ("player_intent" :> Str(S_continue)))
      ELSE decoded

----------------------------------------------------------------------------
(* _display_response *)

\* the event's speaker field looked up first, the table's hustler second
ResolveSpeaker_event_first(response, hustler) ==
  LET speaker_id == Get(response, "speaker", Str(<<>>))
  IN  IF Truthy(speaker_id) /\ speaker_id.t = "str"
         /\ speaker_id.v \in DOMAIN HUSTLERS
      THEN HUSTLERS[speaker_id.v]
      ELSE hustler

\* the speaker _display_response resolves (lines 310-312)
ResolveSpeaker(response, hustler) ==
  LET speaker_id == Get(response, "speaker", Str(<<>>))
  IN  IF hustler # None THEN hustler
      ELSE IF Truthy(speaker_id) /\ speaker_id.t = "str"
              /\ speaker_id.v \in DOMAIN HUSTLERS
           THEN HUSTLERS[speaker_id.v]
           ELSE None

\* the exception _display_response raises before any playback, "" if none
DisplayRaises(response, voice_enabled, hustler) ==
  IF response.t # "obj" THEN "AttributeError"
  ELSE LET speaker_id == Get(response, "speaker", Str(<<>>))
           spoken_tts == Get(response, "spoken_tts", Str(<<>>))
       IN  IF hustler = None /\ speaker_id.t = "arr" THEN "TypeError"
           ELSE IF /\ voice_enabled
                   /\ Truthy(spoken_tts)
                   /\ ResolveSpeaker(response, hustler) # None
                   /\ spoken_tts.t # "str"
                THEN "AttributeError"
                ELSE ""

\* speak() is called and gets past its blank-text return (voice.py 42-43)
Speaks(response, voice_enabled, hustler) ==
  LET spoken_tts == Get(response, "spoken_tts", Str(<<>>))
  IN  /\ voice_enabled
      /\ Truthy(spoken_tts)
      /\ ResolveSpeaker(response, hustler) # None
      /\ spoken_tts.t = "str"
      /\ strip(spoken_tts.v) # <<>>

\* what the display prints: the narrative line and the spoken line
Printed(response, voice_enabled, hustler) ==
  LET narrative == Get(response, "narrative", Str(<<>>))
      spoken_display == Get(response, "spoken_display", Str(<<>>))
  IN  [narrative |-> Truthy(narrative),
       spoken    |-> Truthy(spoken_display),
       speaker   |-> IF Truthy(spoken_display)
                     THEN ResolveSpeaker(response, hustler).name ELSE "",
       voice     |-> IF Speaks(response, voice_enabled, hustler)
                     THEN ResolveSpeaker(response, hustler).voice ELSE ""]

----------------------------------------------------------------------------
(* what the user may type *)

\* texts typed at the park prompt: one for each leave phrase, in mixed
\* case and inside longer text, and texts with no leave phrase
LeaveTexts ==
  { <<"I"," ","L","e","a","v","e">>,
    <<"E","X","I","T">>,
    <<"q","u","i","t","s">>,
    <<"G","o"," ","H","o","m","e">>,
    <<"G","O","O","D","B","Y","E">>,
    <<"o","k"," ","B","y","e","!">>,
    <<"I","'","M"," ","O","U","T">>,
    <<"G","o","t","t","a"," ","g","o">> }

PlainTexts ==
  { <<"h","i">>,
    <<"E","d","d","i","e">>,
    <<"b","y"," ","e","4">> }

ParkTexts == LeaveTexts \cup PlainTexts

\* texts typed at the dialog and confirmation prompts
DialogTexts ==
  { <<"e","4">>, <<"B","y","e">>, <<"y","e","s">> }

----------------------------------------------------------------------------
(* the session *)

VARIABLES
  pc,             \* where _play_loop / _park_phase / _dialog_phase stands
  hustler,        \* _play_loop's hustler: the last _park_phase result
  intent,         \* _dialog_phase's intent of the current loop turn
  response,       \* the last result of _get_response
  full_text,      \* the reply text the last _get_response call collected
  user_input,     \* the last text click.prompt returned
  inflight,       \* queries sent whose response was not received yet
  log,            \* what the session did so far, in order
  screen,         \* what the last _display_response call printed
  _hint_shown,    \* the module global of that name
  voice_enabled,  \* the --voice flag, as _play_loop receives it
  raised,         \* the exception that left _play_loop, "" if none
  registry,       \* hustler.py's HUSTLERS dict, in insertion order
  registered,     \* the _register calls made so far, in order
  call,           \* the last call of a function of hustler.py or
                  \* board.py, of _get_park_time or of main, with what it
                  \* returned or raised
  _board,         \* board.py's global chess.Board
  client          \* _play_loop's ClaudeSDKClient: how many were entered,
                  \* whether one is connected, the queries it was sent

\* the state of hustler.py and board.py and of the function calls, which
\* a session leaves alone
setup_vars == <<registry, registered, call, _board>>

vars == <<pc, hustler, intent, response, full_text, user_input, inflight,
          log, screen, _hint_shown, voice_enabled, raised, client, setup_vars>>

Unbound == [t |-> "unbound", v |-> <<>>]

\* the four hustlers hustler.py registers when it is imported, in order
AtImport ==
  <<HUSTLERS[S_eddie], HUSTLERS[S_viktor], HUSTLERS[S_mei], HUSTLERS[S_marco]>>

\* chess.Board(): the starting position, by what board.py reads from a
\* board: the position, the side to move and the five end tests
chess_Board ==
  [position |-> "start", turn |-> "white",
   is_checkmate |-> FALSE, is_stalemate |-> FALSE,
   is_insufficient_material |-> FALSE, is_fifty_moves |-> FALSE,
   is_repetition |-> FALSE]

\* no function was called yet
NoCall == [fn |-> "", arg |-> <<>>, ret |-> <<>>, raises |-> ""]

NARRATOR == "[NARRATOR]"

\* the prefix without the hustler's name
prefix_unformatted(h) == "[TALKING TO {hustler.name}]"

\* prefix = f"[TALKING TO {hustler.name}]"
prefix(h) == "[TALKING TO " \o h.name \o "]"

Ev(ev, marker, kind) == [ev |-> ev, marker |-> marker, kind |-> kind]

Count(ev) == Cardinality({i \in 1..Len(log) : log[i].ev = ev})

ParkPcs == {"park_scene", "park_scene_recv", "park_scene_show",
            "park_prompt", "park_recv", "park_show"}
DialogPcs == {"dialog_greet", "dialog_greet_recv", "dialog_greet_show",
              "dialog_prompt", "dialog_recv", "dialog_show"}
ConfirmPcs == {"confirm_prompt", "confirm_recv", "confirm_show"}

\* the state of the spec's state machine the code position belongs to
Phase ==
  CASE pc \in ParkPcs    -> "Park"
    [] pc \in DialogPcs  -> "Dialog"
    [] pc \in ConfirmPcs -> "Confirm"
    [] pc = "ended"      -> "Ended"
    [] OTHER             -> "Raised"

\* no ClaudeSDKClient was made yet
NoClient == [entered |-> 0, connected |-> FALSE, turns |-> 0]

\* line 154, entering the async with block: a new client connects, with
\* an empty conversation
aenter(c) == [entered |-> c.entered + 1, connected |-> TRUE, turns |-> 0]

\* a client for each dialog: a new one connects when a table is reached
client_after_per_dialog(to) ==
  IF to \in {"ended", "raised"}
  THEN [client EXCEPT !.connected = FALSE]
  ELSE IF to = "dialog_greet" THEN aenter(client)
  ELSE [client EXCEPT !.turns = @ + (Count("query")' - Count("query"))]

\* the client after a step of the loop that leads to `to`: the queries
\* of the step were sent over it (lines 179, 202, 226, 234, 244, 258), and
\* it disconnects when control leaves the async with block of lines
\* 154-168, by the break or by an exception
client_after(to) ==
  [entered   |-> client.entered,
   connected |-> to \notin {"ended", "raised"},
   turns     |-> client.turns + (Count("query")' - Count("query"))]

Init ==
  /\ pc = "park_scene"
  /\ hustler = None
  /\ intent = Unbound
  /\ response = Unbound
  /\ full_text = <<>>
  /\ user_input = <<>>
  /\ inflight = <<>>
  /\ log = <<>>
  /\ screen = [narrative |-> FALSE, spoken |-> FALSE, speaker |-> "",
               voice |-> ""]
  /\ _hint_shown = FALSE
  /\ voice_enabled \in BOOLEAN
  /\ raised = ""
  /\ registry = AtImport
  /\ registered = AtImport
  /\ call = NoCall
  /\ _board = chess_Board
  /\ client = aenter(NoClient)

\* the exception is noted and the loop goes on where it is
Raise_and_go_on(exception) ==
  /\ pc' = pc
  /\ raised' = exception

\* an exception propagates out of _play_loop
Raise(exception) ==
  /\ pc' = "raised"
  /\ raised' = exception

\* await client.query(f"{marker} {text}"): sent, or the connection fails
Query(marker, kind, text, before, to) ==
  \/ /\ inflight' = Append(inflight, [marker |-> marker, text |-> text])
     /\ log' = before \o <<Ev("query", marker, kind)>>
     /\ pc' = to
     /\ raised' = raised
  \/ /\ inflight' = inflight
     /\ log' = before
     /\ Raise("ConnectionError")

\* the reply is parsed but stays outstanding
Receive_unconsumed(from, to) ==
  /\ pc = from
  /\ inflight # <<>>
  /\ \/ /\ full_text' \in ModelOutputs
        /\ response' = _get_response(full_text')
        /\ inflight' = inflight
        /\ log' = Append(log, Ev("response", "", ""))
        /\ pc' = to
        /\ raised' = raised
     \/ /\ Raise("ConnectionError")
        /\ UNCHANGED <<response, full_text, inflight, log>>
  /\ UNCHANGED <<hustler, intent, user_input, screen, _hint_shown,
                 voice_enabled, setup_vars>>
  /\ client' = client_after(pc')

\* response = await _get_response(client)
Receive(from, to) ==
  /\ pc = from
  /\ inflight # <<>>
  /\ \/ /\ full_text' \in ModelOutputs
        /\ response' = _get_response(full_text')
        /\ inflight' = Tail(inflight)
        /\ log' = Append(log, Ev("response", "", ""))
        /\ pc' = to
        /\ raised' = raised
     \/ /\ Raise("ConnectionError")
        /\ UNCHANGED <<response, full_text, inflight, log>>
  /\ UNCHANGED <<hustler, intent, user_input, screen, _hint_shown,
                 voice_enabled, setup_vars>>
  /\ client' = client_after(pc')

\* the player_intent the session reads from an event (lines 239, 248, 262)
PlayerIntent(event) == Get(event, "player_intent", Str(S_continue))

\* the log once the response is displayed
Displayed == Append(log, Ev("display", "", ""))

\* await _display_response(response, voice_enabled, h) raises
DisplayFails(h) ==
  /\ \/ /\ DisplayRaises(response, voice_enabled, h) # ""
        /\ Raise(DisplayRaises(response, voice_enabled, h))
        /\ UNCHANGED <<screen, log>>
     \/ /\ DisplayRaises(response, voice_enabled, h) = ""
        /\ Speaks(response, voice_enabled, h)
        /\ Raise("PlaybackError")
        /\ screen' = Printed(response, voice_enabled, h)
        /\ log' = Displayed
  /\ UNCHANGED <<hustler, intent, response, user_input, inflight,
                 _hint_shown, voice_enabled, full_text, setup_vars>>

\* await _display_response(response, voice_enabled, h) returns
DisplayOk(h) ==
  /\ DisplayRaises(response, voice_enabled, h) = ""
  /\ screen' = Printed(response, voice_enabled, h)

Farewell == Ev("farewell", "", "")

----------------------------------------------------------------------------
(* _park_phase *)

\* the hustler lines 207-211 select, None if they select nobody
Approached(next_action) ==
  IF startswith(next_action, S_approach)
  THEN LET hustler_id == replace_with_empty(next_action, S_approach)
       IN  IF hustler_id \in DOMAIN HUSTLERS THEN HUSTLERS[hustler_id]
           ELSE None
  ELSE None

\* line 179: the initial park description is asked for
ParkScene ==
  /\ pc = "park_scene"
  /\ Query(NARRATOR, "scene",
           <<"I just entered the park. Describe what I see.">>,
           log, "park_scene_recv")
  /\ UNCHANGED <<hustler, intent, response, user_input, screen,
                 _hint_shown, voice_enabled, full_text, setup_vars>>
  /\ client' = client_after(pc')

\* line 181
ParkSceneResponse == Receive("park_scene_recv", "park_scene_show")

\* the park entry without its _display_response call
ParkSceneShow_undisplayed ==
  /\ pc = "park_scene_show"
  /\ log' = IF _hint_shown THEN log ELSE Append(log, Ev("hint", "", ""))
  /\ _hint_shown' = TRUE
  /\ pc' = "park_prompt"
  /\ UNCHANGED <<hustler, intent, response, user_input, inflight, screen,
                 voice_enabled, full_text, setup_vars, raised>>
  /\ client' = client_after(pc')

\* the park entry reading next_action as the later park turns do
ParkSceneShow_approaches ==
  /\ pc = "park_scene_show"
  /\ \/ DisplayFails(None)
     \/ /\ DisplayOk(None)
        /\ log' = IF _hint_shown THEN Displayed
                  ELSE Displayed \o <<Ev("hint", "", "")>>
        /\ _hint_shown' = TRUE
        /\ LET next_action == Get(response, "next_action",
                                  Str(S_select_hustler))
           IN  IF next_action.t = "str" /\ Approached(next_action.v) # None
               THEN /\ hustler' = Approached(next_action.v)
                    /\ pc' = "dialog_greet"
               ELSE /\ hustler' = hustler
                    /\ pc' = "park_prompt"
        /\ UNCHANGED <<intent, response, user_input, inflight,
                       voice_enabled, full_text, setup_vars, raised>>
  /\ client' = client_after(pc')

\* lines 182-193: the description is displayed, then the hint, once
ParkSceneShow ==
  /\ pc = "park_scene_show"
  /\ \/ DisplayFails(None)
     \/ /\ DisplayOk(None)
        /\ log' = IF _hint_shown THEN Displayed
                  ELSE Displayed \o <<Ev("hint", "", "")>>
        /\ _hint_shown' = TRUE
        /\ pc' = "park_prompt"
        /\ UNCHANGED <<hustler, intent, response, user_input, inflight,
                       voice_enabled, full_text, setup_vars, raised>>
  /\ client' = client_after(pc')

\* a selected hustler is asked to confirm at once
after_park_phase_to_confirm(result) ==
  IF result = None THEN "ended" ELSE "confirm_prompt"

\* _play_loop, lines 157-164: where the loop goes with _park_phase's result
after_park_phase(result) ==
  IF result = None THEN "ended" ELSE "dialog_greet"

\* lines 197-202, and 158-161 of _play_loop when _park_phase returns None
ParkInput ==
  /\ pc = "park_prompt"
  /\ Count("input") < MaxInputs
  /\ user_input' \in ParkTexts
  /\ IF _is_leaving_park(user_input')
     THEN /\ hustler' = None
          /\ log' = log \o <<Ev("input", "", "park"), Farewell>>
          /\ pc' = after_park_phase(None)
          /\ UNCHANGED <<inflight, raised>>
     ELSE /\ Query(NARRATOR, "user", user_input',
                   Append(log, Ev("input", "", "park")), "park_recv")
          /\ hustler' = hustler
  /\ UNCHANGED <<intent, response, screen, _hint_shown, voice_enabled,
                 full_text, setup_vars>>
  /\ client' = client_after(pc')

\* line 203
ParkResponse == Receive("park_recv", "park_show")

\* lines 204-211: the event is displayed and next_action looked at
ParkShow ==
  /\ pc = "park_show"
  /\ \/ DisplayFails(None)
     \/ /\ DisplayOk(None)
        /\ log' = Displayed
        /\ LET next_action == Get(response, "next_action",
                                  Str(S_select_hustler))
           IN  IF next_action.t # "str"
               THEN /\ Raise("AttributeError")
                    /\ hustler' = hustler
               ELSE /\ raised' = raised
                    /\ IF Approached(next_action.v) # None
                       THEN /\ hustler' = Approached(next_action.v)
                            /\ pc' = after_park_phase(hustler')
                       ELSE /\ hustler' = hustler
                            /\ pc' = "park_prompt"
        /\ UNCHANGED <<intent, response, user_input, inflight, _hint_shown,
                       voice_enabled, full_text, setup_vars>>
  /\ client' = client_after(pc')

----------------------------------------------------------------------------
(* _dialog_phase *)

\* the session resets the board itself when a table is approached
DialogGreet_new_game ==
  /\ pc = "dialog_greet"
  /\ Query(prefix(hustler), "greet",
           <<"Someone just sat down at your table. Greet them.">>,
           Append(log, Ev("header", hustler.name, "")), "dialog_greet_recv")
  /\ intent' = Unbound
  /\ _board' = chess_Board
  /\ UNCHANGED <<hustler, response, user_input, screen, _hint_shown,
                 voice_enabled, full_text, registry, registered, call>>
  /\ client' = client_after(pc')

\* lines 219-226: the header is printed and the greeting asked for
DialogGreet ==
  /\ pc = "dialog_greet"
  /\ Query(prefix(hustler), "greet",
           <<"Someone just sat down at your table. Greet them.">>,
           Append(log, Ev("header", hustler.name, "")), "dialog_greet_recv")
  /\ intent' = Unbound
  /\ UNCHANGED <<hustler, response, user_input, screen, _hint_shown,
                 voice_enabled, full_text, setup_vars>>
  /\ client' = client_after(pc')

\* line 228
DialogGreetResponse == Receive("dialog_greet_recv", "dialog_greet_show")

\* line 229
DialogGreetShow ==
  /\ pc = "dialog_greet_show"
  /\ \/ DisplayFails(hustler)
     \/ /\ DisplayOk(hustler)
        /\ log' = Displayed
        /\ pc' = "dialog_prompt"
        /\ UNCHANGED <<hustler, intent, response, user_input, inflight,
                       _hint_shown, voice_enabled, full_text, setup_vars, raised>>
  /\ client' = client_after(pc')

\* the dialog prompt with the leave-phrase test of the park
DialogInput_local_leave ==
  /\ pc = "dialog_prompt"
  /\ Count("input") < MaxInputs
  /\ user_input' \in DialogTexts
  /\ IF _is_leaving_park(user_input')
     THEN /\ log' = log \o <<Ev("input", "", "dialog"), Farewell>>
          /\ pc' = "ended"
          /\ UNCHANGED <<inflight, raised>>
     ELSE Query(prefix(hustler), "user", user_input',
                Append(log, Ev("input", "", "dialog")), "dialog_recv")
  /\ UNCHANGED <<hustler, intent, response, screen, _hint_shown,
                 voice_enabled, full_text, setup_vars>>
  /\ client' = client_after(pc')

\* lines 233-234
DialogInput ==
  /\ pc = "dialog_prompt"
  /\ Count("input") < MaxInputs
  /\ user_input' \in DialogTexts
  /\ Query(prefix(hustler), "user", user_input',
           Append(log, Ev("input", "", "dialog")), "dialog_recv")
  /\ UNCHANGED <<hustler, intent, response, screen, _hint_shown,
                 voice_enabled, full_text, setup_vars>>
  /\ client' = client_after(pc')

\* line 236
DialogResponse == Receive("dialog_recv", "dialog_show")

\* leaving_opponent taken at its word, with no confirmation turn
after_intent_unconfirmed(player_intent) ==
  IF player_intent = Str(S_leaving_park) THEN "confirm_prompt"
  ELSE IF player_intent = Str(S_leaving_opponent) THEN "park_scene"
  ELSE "dialog_prompt"

\* every intent but continue asks for a confirmation
after_intent_not_continue(player_intent) ==
  IF player_intent # Str(S_continue) THEN "confirm_prompt"
  ELSE "dialog_prompt"

\* lines 241 and 255: where the dialog loop goes with the event's intent
after_intent(player_intent) ==
  IF player_intent = Str(S_leaving_park) THEN "confirm_prompt"
  ELSE IF player_intent = Str(S_leaving_opponent) THEN "confirm_prompt"
  ELSE "dialog_prompt"

\* lines 237-241 and 255: the event is displayed and player_intent read
DialogShow ==
  /\ pc = "dialog_show"
  /\ \/ DisplayFails(hustler)
     \/ /\ DisplayOk(hustler)
        /\ log' = Displayed
        /\ intent' = PlayerIntent(response)
        /\ pc' = after_intent(intent')
        /\ UNCHANGED <<hustler, response, user_input, inflight, _hint_shown,
                       voice_enabled, full_text, setup_vars, raised>>
  /\ client' = client_after(pc')

\* the confirmation asked of the narrator
ConfirmInput_narrator ==
  /\ pc = "confirm_prompt"
  /\ Count("input") < MaxInputs
  /\ user_input' \in DialogTexts
  /\ Query(NARRATOR, "user", user_input',
           Append(log, Ev("input", "", "confirm")), "confirm_recv")
  /\ UNCHANGED <<hustler, intent, response, screen, _hint_shown,
                 voice_enabled, full_text, setup_vars>>
  /\ client' = client_after(pc')

\* lines 243-244 and 257-258
ConfirmInput ==
  /\ pc = "confirm_prompt"
  /\ Count("input") < MaxInputs
  /\ user_input' \in DialogTexts
  /\ Query(prefix(hustler), "user", user_input',
           Append(log, Ev("input", "", "confirm")), "confirm_recv")
  /\ UNCHANGED <<hustler, intent, response, screen, _hint_shown,
                 voice_enabled, full_text, setup_vars>>
  /\ client' = client_after(pc')

\* lines 245 and 259
ConfirmResponse == Receive("confirm_recv", "confirm_show")

\* the leaving_opponent branch without its inner leaving_park test
Confirmed_opponent_to_park(first_intent, new_intent) ==
  IF first_intent = Str(S_leaving_park)
  THEN IF new_intent = Str(S_leaving_park) THEN "True"
       ELSE IF new_intent = Str(S_leaving_opponent) THEN "False"
       ELSE "loop"
  ELSE IF new_intent \in {Str(S_leaving_opponent), Str(S_leaving_park)}
       THEN "False"
       ELSE "loop"

\* a confirmation that is not leaving_park goes back to the park
Confirmed_else_park(first_intent, new_intent) ==
  IF new_intent = Str(S_leaving_park) THEN "True" ELSE "False"

\* the leaving_park branch ends the session on either leave intent
Confirmed_park_branch_ends(first_intent, new_intent) ==
  IF first_intent = Str(S_leaving_park)
  THEN IF new_intent \in {Str(S_leaving_opponent), Str(S_leaving_park)}
       THEN "True"
       ELSE "loop"
  ELSE IF new_intent \in {Str(S_leaving_opponent), Str(S_leaving_park)}
       THEN IF new_intent = Str(S_leaving_park) THEN "True" ELSE "False"
       ELSE "loop"

\* what _dialog_phase does with new_intent: "True" and "False" are its
\* return values, "loop" is the next turn of its while loop
Confirmed(first_intent, new_intent) ==
  IF first_intent = Str(S_leaving_park)
  THEN \* lines 248-253
       IF new_intent = Str(S_leaving_park) THEN "True"
       ELSE IF new_intent = Str(S_leaving_opponent) THEN "False"
       ELSE "loop"
  ELSE \* lines 262-267
       IF new_intent \in {Str(S_leaving_opponent), Str(S_leaving_park)}
       THEN IF new_intent = Str(S_leaving_park) THEN "True" ELSE "False"
       ELSE "loop"

\* the loop without the break after the farewell
after_dialog_phase_without_break(leave_park) == "park_scene"

\* the loop going back to the park prompt, past the park entry
after_dialog_phase_to_prompt(leave_park) ==
  IF leave_park = "True" THEN "ended" ELSE "park_prompt"

\* _play_loop, lines 164-168: where the loop goes with _dialog_phase's
\* result
after_dialog_phase(leave_park) ==
  IF leave_park = "True" THEN "ended" ELSE "park_scene"

\* lines 246-253 and 260-267, and 164-168 of _play_loop on a return
ConfirmShow ==
  /\ pc = "confirm_show"
  /\ \/ DisplayFails(hustler)
     \/ /\ DisplayOk(hustler)
        /\ LET new_intent == PlayerIntent(response)
               result == Confirmed(intent, new_intent)
           IN  /\ pc' = IF result = "loop" THEN "dialog_prompt"
                        ELSE after_dialog_phase(result)
               /\ log' = IF result = "True" THEN Displayed \o <<Farewell>>
                         ELSE Displayed
        /\ UNCHANGED <<hustler, intent, response, user_input, inflight,
                       _hint_shown, voice_enabled, full_text, setup_vars, raised>>
  /\ client' = client_after(pc')

----------------------------------------------------------------------------

Next ==
  \/ ParkScene
  \/ ParkSceneResponse
  \/ ParkSceneShow
  \/ ParkInput
  \/ ParkResponse
  \/ ParkShow
  \/ DialogGreet
  \/ DialogGreetResponse
  \/ DialogGreetShow
  \/ DialogInput
  \/ DialogResponse
  \/ DialogShow
  \/ ConfirmInput
  \/ ConfirmResponse
  \/ ConfirmShow

Spec == Init /\ [][Next]_vars

TypeOK ==
  /\ pc \in ParkPcs \cup DialogPcs \cup ConfirmPcs \cup {"ended", "raised"}
  /\ Len(inflight) <= 1
  /\ _hint_shown \in BOOLEAN

----------------------------------------------------------------------------
(* the leave heuristic of the park and the confirmation of a leave *)

\* C1: in the park selection loop an input whose lower-cased text contains
\* one of the eight leave phrases ends the session at once: the farewell
\* follows the input, and no query is sent for it.
C1_LeavePhraseEndsWithoutQuery ==
  [][ ( /\ pc = "park_prompt"
        /\ \E phrase \in {S_leave, S_exit, S_quit, S_go_home, S_goodbye,
                          S_bye, S_im_out, S_gotta_go} :
             Contains(lower(user_input'), phrase) )
      => ( /\ pc' = "ended"
           /\ inflight' = inflight
           /\ Count("query")' = Count("query")
           /\ log' = log \o <<Ev("input", "", "park"), Farewell>> ) ]_vars

\* a session ended by a park input that holds "bye" in upper case
C1_Witness ==
  /\ pc = "ended"
  /\ Len(log) >= 2
  /\ log[Len(log) - 1] = Ev("input", "", "park")
  /\ Contains(lower(user_input), S_bye)
  /\ ~ Contains(user_input, S_bye)
  /\ Count("query") >= 2

\* C2: when the confirmation event is displayed and its player_intent is
\* leaving_park, the session ends, whichever intent asked for the
\* confirmation; it goes neither to the park nor back to the dialog.
C2_ConfirmLeavingParkEnds ==
  [][ ( /\ pc = "confirm_show"
        /\ pc' # "raised"
        /\ PlayerIntent(response) = Str(S_leaving_park) )
      => ( /\ pc' = "ended"
           /\ log' = log \o <<Ev("display", "", ""), Farewell>> ) ]_vars

\* ended by leaving_park in a confirmation that leaving_opponent asked for
C2_Witness ==
  /\ pc = "ended"
  /\ intent = Str(S_leaving_opponent)
  /\ PlayerIntent(response) = Str(S_leaving_park)
  /\ Len(log) >= 2
  /\ log[Len(log) - 1].ev = "display"

\* C3: when the confirmation event is displayed and its player_intent is
\* neither leaving_park nor leaving_opponent, the session is back at the
\* dialog prompt of the same hustler, and the event was displayed.
C3_ConfirmOtherReturnsToDialog ==
  [][ ( /\ pc = "confirm_show"
        /\ pc' # "raised"
        /\ PlayerIntent(response) \notin
             {Str(S_leaving_park), Str(S_leaving_opponent)} )
      => ( /\ pc' = "dialog_prompt"
           /\ hustler' = hustler
           /\ log' = Append(log, Ev("display", "", "")) ) ]_vars

\* back in the dialog after leaving_park was answered with continue
C3_Witness ==
  /\ pc = "dialog_prompt"
  /\ intent = Str(S_leaving_park)
  /\ PlayerIntent(response) = Str(S_continue)
  /\ log[Len(log)].ev = "display"
  /\ hustler = HUSTLERS[S_viktor]

\* C4: when the confirmation event is displayed and its player_intent is
\* leaving_opponent, the session goes back to the park, whichever intent
\* asked for the confirmation, and does not end.
C4_ConfirmLeavingOpponentToPark ==
  [][ ( /\ pc = "confirm_show"
        /\ pc' # "raised"
        /\ PlayerIntent(response) = Str(S_leaving_opponent) )
      => ( /\ pc' = "park_scene"
           /\ Count("farewell")' = 0 ) ]_vars

\* back in the park after leaving_park was answered with leaving_opponent
C4_Witness ==
  /\ pc = "park_scene"
  /\ intent = Str(S_leaving_park)
  /\ PlayerIntent(response) = Str(S_leaving_opponent)
  /\ log[Len(log)].ev = "display"

\* C5: a dialog event with a leave intent is displayed and leads to the
\* confirmation prompt, never to the park or the end; the dialog is left
\* only from a confirmation whose event and whose asking event both carry
\* a leave intent; the confirmation event is the reply to the one input
\* read after the asking event was displayed.
C5_TwoStepConfirmation ==
  /\ [][ ( /\ pc = "dialog_show"
           /\ pc' # "raised"
           /\ PlayerIntent(response) \in
                {Str(S_leaving_park), Str(S_leaving_opponent)} )
         => ( /\ pc' = "confirm_prompt"
              /\ intent' = PlayerIntent(response)
              /\ hustler' = hustler
              /\ log' = Append(log, Ev("display", "", "")) ) ]_vars
  /\ [][ ( /\ Phase \in {"Dialog", "Confirm"}
           /\ Phase' \in {"Park", "Ended"} )
         => ( /\ pc = "confirm_show"
              /\ intent \in {Str(S_leaving_park), Str(S_leaving_opponent)}
              /\ PlayerIntent(response) \in
                   {Str(S_leaving_park), Str(S_leaving_opponent)} ) ]_vars
  /\ [][ (pc \in ConfirmPcs)
         => (intent' = intent /\ hustler' = hustler) ]_vars
  /\ [] ( (pc = "confirm_show")
          => ( /\ Len(log) >= 4
               /\ log[Len(log)].ev = "response"
               /\ log[Len(log) - 1].ev = "query"
               /\ log[Len(log) - 2] = Ev("input", "", "confirm")
               /\ log[Len(log) - 3].ev = "display" ) )

\* at the confirmation prompt again, after an earlier confirmation of the
\* same dialog went back to the dialog
C5_Witness ==
  /\ pc = "confirm_prompt"
  /\ intent = Str(S_leaving_opponent)
  /\ log[Len(log)].ev = "display"
  /\ Count("header") = 1
  /\ \E i \in 1..Len(log) : log[i] = Ev("input", "", "confirm")

\* C6: when a dialog event is displayed and its player_intent is not a
\* leave intent (continue, stay, absent, not a string), the session is at
\* the dialog prompt of the same hustler, and the next input is sent as a
\* dialog turn of that hustler.
C6_OtherIntentStaysInDialog ==
  /\ [][ ( /\ pc = "dialog_show"
           /\ pc' # "raised"
           /\ PlayerIntent(response) \notin
                {Str(S_leaving_park), Str(S_leaving_opponent)} )
         => ( /\ pc' = "dialog_prompt"
              /\ hustler' = hustler ) ]_vars
  /\ [][ ( /\ pc = "dialog_prompt"
           /\ pc' # "raised" )
         => ( /\ pc' = "dialog_recv"
              /\ hustler' = hustler
              /\ log' = log \o <<Ev("input", "", "dialog"),
                                 Ev("query",
                                    "[TALKING TO " \o hustler.name \o "]",
                                    "user")>> ) ]_vars

\* a dialog turn sent after an event with player_intent stay
C6_Witness ==
  /\ pc = "dialog_recv"
  /\ intent = Str(S_stay)
  /\ PlayerIntent(response) = Str(S_stay)
  /\ log[Len(log) - 1] = Ev("input", "", "dialog")

----------------------------------------------------------------------------
(* entering the park, approaching a hustler, leaving *)

\* C7: when a park event is displayed whose next_action is approach_<id>
\* for a registered id, the session enters the dialog with that hustler;
\* the dialog starts with the header and the greeting query tagged
\* [TALKING TO <name>], and the reply to it is received and displayed
\* before any input is read.
C7_ApproachEntersDialogAndGreets ==
  /\ [][ \A id \in {S_eddie, S_viktor, S_mei, S_marco} :
           ( /\ pc = "park_show"
             /\ pc' # "raised"
             /\ Get(response, "next_action", Str(S_select_hustler))
                  = Str(S_approach \o id) )
           => ( /\ pc' = "dialog_greet"
                /\ hustler'.id = id
                /\ hustler'.name = HUSTLERS[id].name ) ]_vars
  /\ [][ ( /\ pc = "dialog_greet"
           /\ pc' # "raised" )
         => ( /\ pc' = "dialog_greet_recv"
              /\ hustler' = hustler
              /\ inflight' =
                   <<[marker |-> "[TALKING TO " \o hustler.name \o "]",
                      text |-> <<"Someone just sat down at your table. Greet them.">>]>>
              /\ log' = log \o
                   <<Ev("header", hustler.name, ""),
                     Ev("query", "[TALKING TO " \o hustler.name \o "]",
                        "greet")>> ) ]_vars
  /\ [] ( \A i \in 1..Len(log) :
            (log[i].ev = "header")
            => ( /\ (i + 1 <= Len(log)) =>
                      log[i + 1] = Ev("query",
                                      "[TALKING TO " \o log[i].marker \o "]",
                                      "greet")
                 /\ (i + 2 <= Len(log)) => log[i + 2].ev = "response"
                 /\ (i + 3 <= Len(log)) => log[i + 3].ev = "display" ) )

\* the first input approached Fast Eddie, whose greeting is displayed
C7_Witness ==
  /\ pc = "dialog_prompt"
  /\ hustler = HUSTLERS[S_eddie]
  /\ Count("input") = 1
  /\ Count("display") = 3
  /\ log[Len(log)].ev = "display"
  /\ log[Len(log) - 2] = Ev("query", "[TALKING TO Fast Eddie]", "greet")

\* C8: when a park event is displayed whose next_action is a string other
\* than approach_<id> for a registered id (select_hustler, absent, or
\* approach_ followed by an unregistered id), the session stays in the
\* park and reads the next input there.
C8_UnresolvedActionStaysInPark ==
  [][ ( /\ pc = "park_show"
        /\ pc' # "raised"
        /\ Get(response, "next_action", Str(S_select_hustler)).t = "str"
        /\ \A id \in {S_eddie, S_viktor, S_mei, S_marco} :
             Get(response, "next_action", Str(S_select_hustler))
               # Str(S_approach \o id) )
      => ( /\ pc' = "park_prompt"
           /\ hustler' = hustler ) ]_vars

\* C9: the session starts in the park; the first thing it does is send
\* the scene query tagged [NARRATOR] with the fixed text, and the reply is
\* received and displayed before the first input is read.
C9_SceneDescribedFirst ==
  /\ (log = <<>> /\ raised = "") => (pc = "park_scene" /\ Phase = "Park")
  /\ (Len(log) >= 1) => log[1] = Ev("query", "[NARRATOR]", "scene")
  /\ (Len(log) >= 2) => log[2].ev = "response"
  /\ (Len(log) >= 3) => log[3].ev = "display"
  /\ \A i \in 1..Len(log) : (log[i].ev = "input") => (i > 3)
  /\ (Len(log) = 1 /\ pc = "park_scene_recv")
       => /\ user_input = <<>>
          /\ inflight =
               <<[marker |-> "[NARRATOR]",
                  text |-> <<"I just entered the park. Describe what I see.">>]>>

\* the first input was read and sent after the scene was displayed
C9_Witness ==
  /\ pc = "park_recv"
  /\ Count("input") = 1
  /\ Len(log) >= 5
  /\ log[3].ev = "display"

\* C10: the farewell is printed exactly when the session ends, once and
\* as the last thing; after it nothing changes: no query, no input, no
\* other phase.
C10_EndedIsTerminal ==
  /\ [] ( /\ (pc = "ended")
               => ( /\ Count("farewell") = 1
                    /\ log[Len(log)] = Farewell
                    /\ inflight = <<>>
                    /\ raised = "" )
          /\ (Count("farewell") > 0) => (pc = "ended") )
  /\ [][ (pc = "ended") => UNCHANGED vars ]_vars

\* ended by a confirmed leaving_park, after the confirmation was displayed
C10_Witness ==
  /\ pc = "ended"
  /\ Count("farewell") = 1
  /\ intent = Str(S_leaving_park)
  /\ PlayerIntent(response) = Str(S_leaving_park)
  /\ log[Len(log) - 1].ev = "display"

----------------------------------------------------------------------------
(* the reply parser: _get_response and what reads its result *)

\* C11: parsing is total: whatever text the model answers with, the
\* parse step returns a structured event (a JSON object), and the
\* display and transition logic read it without raising AttributeError
\* or TypeError.
C11_ParseIsTotal ==
  /\ (response # Unbound) => (response.t = "obj")
  /\ raised \notin {"AttributeError", "TypeError"}

\* C12: when decoding the cleaned text fails, the event is the fail-open
\* one: no narrative, the reply text exactly as received for both
\* spoken_display and spoken_tts, and player_intent continue.
C12_FailOpenFallback ==
  (response # Unbound /\ json_loads(clean(full_text)) = JSONDecodeError)
    => /\ response.t = "obj"
       /\ DOMAIN response.v =
            {"narrative", "spoken_display", "spoken_tts", "player_intent"}
       /\ response.v["narrative"] = Str(<<>>)
       /\ response.v["spoken_display"] = Str(full_text)
       /\ response.v["spoken_tts"] = Str(full_text)
       /\ response.v["player_intent"] = Str(S_continue)

\* prose inside a code fence was answered at the park prompt, shown with
\* its fences and line breaks, and the park prompt came back
C12_Witness ==
  /\ pc = "park_prompt"
  /\ Count("input") = 1
  /\ full_text = <<Fence, "\n", "O", "k", "\n", Fence, "\n">>
  /\ clean(full_text) = <<"O", "k">>
  /\ response.v["spoken_display"] = Str(full_text)
  /\ screen.spoken

\* C13: the event is the one decoded from the reply with surrounding
\* whitespace, exactly one leading fence marker (with or without the
\* word json) and exactly one trailing fence marker removed, and nothing
\* else; if that text does not decode, it is the fail-open event.
C13_ExactlyOneFenceEachSide ==
  (response # Unbound) =>
    LET text0 == strip(full_text)
        lead  == IF startswith(text0, <<Fence, "json">>) THEN 2
                 ELSE IF startswith(text0, <<Fence>>) THEN 1 ELSE 0
        text1 == SubSeq(text0, lead + 1, Len(text0))
        text2 == IF endswith(text1, <<Fence>>)
                 THEN SubSeq(text1, 1, Len(text1) - 1) ELSE text1
        decoded == json_loads(strip(text2))
    IN  IF decoded = JSONDecodeError
        THEN /\ response.t = "obj"
             /\ "spoken_display" \in DOMAIN response.v
             /\ response.v["spoken_display"] = Str(full_text)
        ELSE response = decoded

\* C14: every field the session reads from a decoded event is a string,
\* the default when the field is absent; no null and no other
\* non-string value is read.
C14_ReadFieldsAreStrings ==
  (response # Unbound /\ response.t = "obj") =>
    /\ \A key \in {"narrative", "spoken_display", "spoken_tts", "speaker"} :
         Get(response, key, Str(<<>>)).t = "str"
    /\ Get(response, "next_action", Str(S_select_hustler)).t = "str"
    /\ PlayerIntent(response).t = "str"

----------------------------------------------------------------------------
(* function calls outside a session: _get_park_time, _elo_to_skill_level *)

MaxElo == 3000

\* the session variables while no session runs
NoSession ==
  /\ pc = "import"
  /\ hustler = None
  /\ intent = Unbound
  /\ response = Unbound
  /\ full_text = <<>>
  /\ user_input = <<>>
  /\ inflight = <<>>
  /\ log = <<>>
  /\ screen = [narrative |-> FALSE, spoken |-> FALSE,
               speaker |-> "", voice |-> ""]
  /\ _hint_shown = FALSE
  /\ voice_enabled = FALSE
  /\ raised = ""
  /\ client = NoClient

session_vars == <<pc, hustler, intent, response, full_text, user_input,
                  inflight, log, screen, _hint_shown, voice_enabled, raised, client>>

\* datetime values: the fields strftime and .hour read
Datetimes ==
  [month : {1}, day : {15}, weekday : {2}, hour : 0..23] \cup
  [month : {7}, day : {4}, weekday : {5}, hour : 0..23]

\* the argument that was not passed
Omitted == [month |-> 0, day |-> 0, weekday |-> 0, hour |-> 0]

MonthNames ==
  <<"January", "February", "March", "April", "May", "June", "July",
    "August", "September", "October", "November", "December">>

\* datetime.weekday() counts from Monday
DayNames ==
  <<"Monday", "Tuesday", "Wednesday", "Thursday", "Friday", "Saturday",
    "Sunday">>

Digits == <<"0", "1", "2", "3", "4", "5", "6", "7", "8", "9">>

\* now.strftime("%B %d"): the month's name and the day in two digits
strftime_B_d(now) ==
  MonthNames[now.month] \o " " \o
  Digits[(now.day \div 10) + 1] \o Digits[(now.day % 10) + 1]

\* now.strftime("%A")
strftime_A(now) == DayNames[now.weekday + 1]

\* the night hours given a label of their own
_get_park_time_night(now) ==
  LET hour == now.hour
  IN  [date        |-> strftime_B_d(now),
       day_of_week |-> strftime_A(now),
       time_of_day |->
         IF hour >= 22 \/ hour < 6 THEN "night"
         ELSE IF hour < 9 THEN "early morning"
         ELSE IF hour < 12 THEN "morning"
         ELSE IF hour < 14 THEN "midday"
         ELSE IF hour < 17 THEN "afternoon"
         ELSE IF hour < 20 THEN "evening"
         ELSE "late evening"]

\* _get_park_time(), with now the value datetime.now() returned
_get_park_time(now) ==
  LET hour == now.hour
  IN  [date        |-> strftime_B_d(now),
       day_of_week |-> strftime_A(now),
       time_of_day |->
         IF hour >= 22 \/ hour < 6 THEN "late evening"
         ELSE IF hour < 9 THEN "early morning"
         ELSE IF hour < 12 THEN "morning"
         ELSE IF hour < 14 THEN "midday"
         ELSE IF hour < 17 THEN "afternoon"
         ELSE IF hour < 20 THEN "evening"
         ELSE "late evening"]

\* no park time: the None a prompt is composed with by default, and the
\* result a call that raises does not have
NoParkTime == [date |-> "", day_of_week |-> "", time_of_day |-> ""]

\* _get_park_time is called once, as _play_loop does, while the clock
\* shows any datetime; a caller that passes now=... gets the TypeError of
\* a function that takes no argument
CallGetParkTime ==
  /\ pc = "import"
  /\ call.fn = ""
  /\ \E clock \in Datetimes, now \in {Omitted} \cup Datetimes :
       call' = [fn     |-> "_get_park_time",
                arg    |-> [now |-> now, clock |-> clock],
                ret    |-> IF now = Omitted THEN _get_park_time(clock)
                           ELSE NoParkTime,
                raises |-> IF now = Omitted THEN "" ELSE "TypeError"]
  /\ UNCHANGED <<session_vars, registry, registered, _board>>

\* the ELOs a call is made with
Elos == (0 - MaxElo)..MaxElo

\* the upper clamp left out
_elo_to_skill_level_unclamped(elo) ==
  IF (elo - 1000) \div 90 < 0 THEN 0 ELSE (elo - 1000) \div 90

\* max(0, min(20, (elo - 1000) // 90)); // rounds down, as \div does
_elo_to_skill_level(elo) ==
  LET level == (elo - 1000) \div 90
      capped == IF level < 20 THEN level ELSE 20
  IN  IF capped > 0 THEN capped ELSE 0

\* _elo_to_skill_level is called with any ELO first and with the next
\* higher ELO after that
CallEloToSkillLevel ==
  /\ pc = "import"
  /\ \E elo \in Elos :
       /\ \/ call.fn = ""
          \/ (call.fn = "_elo_to_skill_level" /\ elo = call.arg + 1)
       /\ call' = [fn     |-> "_elo_to_skill_level",
                   arg    |-> elo,
                   ret    |-> _elo_to_skill_level(elo),
                   raises |-> ""]
  /\ UNCHANGED <<session_vars, registry, registered, _board>>

InitCalls ==
  /\ NoSession
  /\ registry = AtImport
  /\ registered = AtImport
  /\ call = NoCall
  /\ _board = chess_Board

NextCalls ==
  \/ CallGetParkTime
  \/ CallEloToSkillLevel

SpecCalls == InitCalls /\ [][NextCalls]_vars

\* C15: the label of every hour of the day is the one of the table: late
\* evening from 22 to 5, early morning 6-8, morning 9-11, midday 12-13,
\* afternoon 14-16, evening 17-19, late evening 20-21.
C15_TimeOfDayByHour ==
  (call.fn = "_get_park_time" /\ call.raises = "") =>
    LET h == call.arg.clock.hour
        label == call.ret.time_of_day
    IN  /\ (h >= 22 \/ h < 6)   => label = "late evening"
        /\ (6 <= h /\ h < 9)    => label = "early morning"
        /\ (9 <= h /\ h < 12)   => label = "morning"
        /\ (12 <= h /\ h < 14)  => label = "midday"
        /\ (14 <= h /\ h < 17)  => label = "afternoon"
        /\ (17 <= h /\ h < 20)  => label = "evening"
        /\ (20 <= h /\ h < 22)  => label = "late evening"
        /\ label \in {"late evening", "early morning", "morning", "midday",
                      "afternoon", "evening"}

\* a call at 23:00 returned late evening
C15_Witness ==
  /\ call.fn = "_get_park_time"
  /\ call.raises = ""
  /\ call.arg.clock.hour = 23
  /\ call.ret.time_of_day = "late evening"

\* C16: a call with an explicit now returns the date, day of week and
\* time of day of that value whatever the clock shows, and a call
\* without it those of the clock.
C16_PureFunctionOfNow ==
  (call.fn = "_get_park_time") =>
    /\ call.raises = ""
    /\ call.ret = IF call.arg.now = Omitted
                  THEN _get_park_time(call.arg.clock)
                  ELSE _get_park_time(call.arg.now)

\* C17: the skill level is max(0, min(20, floor((elo - 1000) / 90))): in
\* 0..20, 0 below 1090, 20 from 2800 on, never lower for a higher ELO,
\* and 0, 1, 5, 11, 20 for 1000, 1090, 1500, 2000, 2800.
C17_SkillLevelClamped ==
  /\ [] ( (call.fn = "_elo_to_skill_level") =>
            LET elo == call.arg
                floor == CHOOSE q \in (0 - 50)..50 :
                           90 * q <= elo - 1000 /\ elo - 1000 < 90 * (q + 1)
                low == IF floor < 20 THEN floor ELSE 20
            IN  /\ call.raises = ""
                /\ call.ret = IF low > 0 THEN low ELSE 0
                /\ call.ret \in 0..20
                /\ (elo < 1090) => call.ret = 0
                /\ (elo >= 2800) => call.ret = 20
                /\ (elo = 1000) => call.ret = 0
                /\ (elo = 1090) => call.ret = 1
                /\ (elo = 1500) => call.ret = 5
                /\ (elo = 2000) => call.ret = 11 )
  /\ [][ (call.fn = "_elo_to_skill_level"
            /\ call'.fn = "_elo_to_skill_level"
            /\ call.arg <= call'.arg) => (call.ret <= call'.ret) ]_vars

\* the calls came up to 2800 from below, where the level reached 20
C17_Witness ==
  /\ call.fn = "_elo_to_skill_level"
  /\ call.arg = 2800
  /\ call.ret = 20

----------------------------------------------------------------------------
(* hustler.py: the registry and the prompt composers *)

MaxRegisters == 2

S_bob == <<"b","o","b">>

\* the hustlers a further _register call is made with: a new one, and
\* two whose id is taken
NewHustlers ==
  { [id |-> S_bob,   name |-> "Bob",        voice |-> "en-GB-RyanNeural"],
    [id |-> S_bob,   name |-> "Bobby",      voice |-> "en-US-GuyNeural"],
    [id |-> S_eddie, name |-> "Slow Eddie", voice |-> "en-US-GuyNeural"] }

\* HUSTLERS.keys(), in the dict's order
keys(dict) == [i \in 1..Len(dict) |-> dict[i].id]

\* hustler_id in HUSTLERS and HUSTLERS[hustler_id]: None if the id is no
\* key
lookup(dict, id) ==
  IF \E i \in 1..Len(dict) : dict[i].id = id
  THEN dict[CHOOSE i \in 1..Len(dict) : dict[i].id = id]
  ELSE None

\* a taken id is removed and the hustler put at the end
_register_moves_to_end(dict, h) ==
  Append(SelectSeq(dict, LAMBDA e : e.id # h.id), h)

\* an id that is taken keeps the hustler it has
_register_keeps_first(dict, h) ==
  IF \E i \in 1..Len(dict) : dict[i].id = h.id
  THEN dict
  ELSE Append(dict, h)

\* HUSTLERS[hustler.id] = hustler: a key that exists keeps its place and
\* gets the new value, a new key goes to the end
_register(dict, h) ==
  IF \E i \in 1..Len(dict) : dict[i].id = h.id
  THEN [dict EXCEPT ![CHOOSE i \in 1..Len(dict) : dict[i].id = h.id] = h]
  ELSE Append(dict, h)

\* sep.join(texts)
RECURSIVE join(_, _)
join(sep, texts) ==
  IF texts = <<>> THEN <<>>
  ELSE IF Len(texts) = 1 THEN texts[1]
  ELSE texts[1] \o sep \o join(sep, Tail(texts))

\* the alternatives of an enum written a|b|c
RECURSIVE Split(_, _)
Split(text, sep) ==
  IF \E i \in 1..Len(text) : text[i] = sep
  THEN LET i == CHOOSE k \in 1..Len(text) :
                  /\ text[k] = sep
                  /\ \A j \in 1..(k - 1) : text[j] # sep
       IN  <<SubSeq(text, 1, i - 1)>> \o
           Split(SubSeq(text, i + 1, Len(text)), sep)
  ELSE <<text>>

\* "|".join(HUSTLERS.keys())
hustler_ids(dict) == join(<<"|">>, keys(dict))

\* the ids joined without the approach_ in front
approach_actions_unprefixed(dict) == join(<<"|">>, keys(dict))

\* "|".join(f"approach_{h_id}" for h_id in HUSTLERS.keys())
approach_actions(dict) ==
  join(<<"|">>, [i \in 1..Len(dict) |-> S_approach \o keys(dict)[i]])

S_english == <<"e","n","g","l","i","s","h">>

\* the values of --language
Languages ==
  { <<"E","n","g","l","i","s","h">>,
    <<"E","N","G","L","I","S","H">>,
    <<"e","n","g","L","i","s","h">>,
    <<"R","u","s","s","i","a","n">>,
    <<"E","n","g","l","i","s","c","h">>,
    <<>> }

\* the park times a prompt is composed with
ParkTimes ==
  {NoParkTime} \cup
  { _get_park_time(now) : now \in {d \in Datetimes : d.hour \in {10, 23}} }

\* the language compared as it is written
get_unified_game_prompt_case_sensitive(dict, language, park_time) ==
  [hustler_profiles |->
     [i \in 1..Len(dict) |-> [name |-> dict[i].name, id |-> dict[i].id]],
   speaker |-> hustler_ids(dict),
   next_action |-> S_select_hustler \o <<"|">> \o approach_actions(dict),
   language_instruction |->
     IF language # <<"E","n","g","l","i","s","h">>
     THEN <<"LANGUAGE: Respond entirely in ">> \o language \o <<".">>
     ELSE <<>>,
   time_context |->
     IF park_time # NoParkTime
     THEN <<"CURRENT TIME: ", park_time.time_of_day, " on ",
            park_time.day_of_week, ", ", park_time.date>>
     ELSE <<>>]

\* get_unified_game_prompt(language, park_time) while HUSTLERS is dict:
\* the parts of the text that depend on the three
get_unified_game_prompt(dict, language, park_time) ==
  [hustler_profiles |->
     [i \in 1..Len(dict) |-> [name |-> dict[i].name, id |-> dict[i].id]],
   speaker |-> hustler_ids(dict),
   next_action |-> S_select_hustler \o <<"|">> \o approach_actions(dict),
   language_instruction |->
     IF lower(language) # S_english
     THEN <<"LANGUAGE: Respond entirely in ">> \o language \o <<".">>
     ELSE <<>>,
   time_context |->
     IF park_time # NoParkTime
     THEN <<"CURRENT TIME: ", park_time.time_of_day, " on ",
            park_time.day_of_week, ", ", park_time.date>>
     ELSE <<>>]

\* get_hustler_prompt(hustler, language): the parts of the text that
\* depend on the two
get_hustler_prompt(h, language) ==
  [role_instruction |-> "You are " \o h.name \o ". Play this character:",
   language_instruction |->
     IF lower(language) # S_english
     THEN <<"LANGUAGE: Respond entirely in ">> \o language \o <<".">>
     ELSE <<>>]

\* a module, after importing hustler.py, registers one more hustler
Register ==
  /\ pc = "import"
  /\ Len(registered) < Len(AtImport) + MaxRegisters
  /\ \E h \in NewHustlers :
       /\ registry' = _register(registry, h)
       /\ registered' = Append(registered, h)
  /\ UNCHANGED <<session_vars, call, _board>>

\* the unified prompt is composed
CallGetUnifiedGamePrompt ==
  /\ pc = "import"
  /\ \E language \in Languages, park_time \in ParkTimes :
       call' = [fn     |-> "get_unified_game_prompt",
                arg    |-> [HUSTLERS |-> registry, language |-> language,
                            park_time |-> park_time],
                ret    |-> get_unified_game_prompt(registry, language,
                                                   park_time),
                raises |-> ""]
  /\ UNCHANGED <<session_vars, registry, registered, _board>>

\* the prompt of one registered hustler is composed
CallGetHustlerPrompt ==
  /\ pc = "import"
  /\ \E i \in 1..Len(registry), language \in Languages :
       call' = [fn     |-> "get_hustler_prompt",
                arg    |-> [hustler |-> registry[i], language |-> language],
                ret    |-> get_hustler_prompt(registry[i], language),
                raises |-> ""]
  /\ UNCHANGED <<session_vars, registry, registered, _board>>

NextRegistry ==
  \/ Register
  \/ CallGetUnifiedGamePrompt
  \/ CallGetHustlerPrompt

SpecRegistry == InitCalls /\ [][NextRegistry]_vars

\* C18: the next_action enum of the unified prompt has select_hustler
\* and one approach_<id> for each registered id and nothing else:
\* 1 + |registry| alternatives, none twice, none empty.
C18_NextActionEnum ==
  (call.fn = "get_unified_game_prompt") =>
    LET dict == call.arg.HUSTLERS
        alternatives == Split(call.ret.next_action, "|")
    IN  /\ Len(alternatives) = 1 + Len(dict)
        /\ alternatives[1] = S_select_hustler
        /\ \A i \in 1..Len(dict) :
             alternatives[i + 1] = S_approach \o dict[i].id
        /\ \A i, j \in 1..Len(alternatives) :
             (i # j) => (alternatives[i] # alternatives[j])
        /\ \A i \in 1..Len(alternatives) : alternatives[i] # <<>>

\* the prompt was composed after bob was registered: approach_bob is
\* the sixth alternative
C18_Witness ==
  /\ call.fn = "get_unified_game_prompt"
  /\ Len(call.arg.HUSTLERS) = 5
  /\ call.arg.HUSTLERS = registry
  /\ Len(registered) > Len(registry)
  /\ Split(call.ret.next_action, "|")[6] = S_approach \o S_bob

\* C19: both composers leave the language instruction out exactly when
\* the language is English in any letter case, and write it, naming the
\* language, for every other value.
C19_LanguageInstruction ==
  (call.fn \in {"get_unified_game_prompt", "get_hustler_prompt"}) =>
    LET language == call.arg.language
        is_english ==
          /\ Len(language) = 7
          /\ \A i \in 1..7 :
               language[i] \in {<<"e","n","g","l","i","s","h">>[i],
                                <<"E","N","G","L","I","S","H">>[i]}
    IN  IF is_english
        THEN call.ret.language_instruction = <<>>
        ELSE /\ call.ret.language_instruction # <<>>
             /\ SubSeq(call.ret.language_instruction, 2, 1 + Len(language))
                  = language

\* the unified prompt was composed for ENGLISH, without the instruction
C19_Witness ==
  /\ call.fn = "get_unified_game_prompt"
  /\ call.arg.language = <<"E","N","G","L","I","S","H">>
  /\ call.ret.language_instruction = <<>>

\* C20: looking an id up gives the hustler registered last under it,
\* nothing for an id that was never registered, and the registry has
\* exactly one entry for each id that was registered.
C20_RegisterLastWriteWins ==
  LET ids == {S_eddie, S_viktor, S_mei, S_marco, S_bob,
              <<"z","o","e">>, <<>>}
      calls(id) == {i \in 1..Len(registered) : registered[i].id = id}
      last(id) == CHOOSE i \in calls(id) : \A j \in calls(id) : j <= i
  IN  /\ \A id \in ids :
           lookup(registry, id) =
             IF calls(id) # {} THEN registered[last(id)] ELSE None
      /\ \A i, j \in 1..Len(registry) :
           (i # j) => (registry[i].id # registry[j].id)
      /\ {registry[i].id : i \in 1..Len(registry)} =
           {registered[i].id : i \in 1..Len(registered)}

\* eddie was registered a second time and bob never
C20_Witness ==
  /\ Len(registered) = 5
  /\ registered[5].name = "Slow Eddie"
  /\ Len(registry) = 4
  /\ lookup(registry, S_eddie).name = "Slow Eddie"
  /\ lookup(registry, S_bob) = None

\* C21: enumerating the registry lists each registered id once, the ids
\* in the order in which they were first registered, and two
\* enumerations with no registration between them agree.
C21_EnumerationInRegistrationOrder ==
  /\ [] LET ks == keys(registry)
            first(id) == CHOOSE i \in 1..Len(registered) :
                           /\ registered[i].id = id
                           /\ \A j \in 1..(i - 1) : registered[j].id # id
        IN  /\ {ks[i] : i \in 1..Len(ks)} =
                 {registered[i].id : i \in 1..Len(registered)}
            /\ \A a, b \in 1..Len(ks) : (a < b) => (first(ks[a]) < first(ks[b]))
            /\ (call.fn = "get_unified_game_prompt") =>
                 /\ [i \in 1..Len(call.ret.hustler_profiles) |->
                       call.ret.hustler_profiles[i].id]
                      = keys(call.arg.HUSTLERS)
                 /\ Split(call.ret.speaker, "|") = keys(call.arg.HUSTLERS)
  /\ [][ ( /\ call.fn = "get_unified_game_prompt"
           /\ call'.fn = "get_unified_game_prompt"
           /\ call.arg.HUSTLERS = registry
           /\ registered' = registered )
         => ( /\ call'.ret.hustler_profiles = call.ret.hustler_profiles
              /\ call'.ret.speaker = call.ret.speaker ) ]_vars

\* bob was registered, then eddie a second time: the prompt lists eddie
\* first, with the new name, and bob last
C21_Witness ==
  /\ Len(registered) = 6
  /\ registered[5].id = S_bob
  /\ registered[6].name = "Slow Eddie"
  /\ call.fn = "get_unified_game_prompt"
  /\ call.arg.HUSTLERS = registry
  /\ call.ret.hustler_profiles[1] = [name |-> "Slow Eddie", id |-> S_eddie]
  /\ call.ret.hustler_profiles[5].id = S_bob

----------------------------------------------------------------------------
(* turns, failures and phases of the session *)

\* C23: turns do not overlap: at most one query is outstanding, a query
\* is sent and an input read only when none is, every query but an
\* outstanding or failed last one is followed by its response, and an
\* input that is forwarded adds exactly one query, which carries it.
C23_NoOverlappingTurns ==
  /\ [] ( /\ Len(inflight) <= 1
          /\ (pc \in {"park_prompt", "dialog_prompt", "confirm_prompt",
                      "park_scene", "dialog_greet", "ended"})
               => (inflight = <<>> /\ Count("query") = Count("response"))
          /\ (pc \in {"park_scene_recv", "park_recv", "dialog_greet_recv",
                      "dialog_recv", "confirm_recv"})
               => (Len(inflight) = 1 /\ log[Len(log)].ev = "query")
          /\ \A i \in 1..(Len(log) - 1) :
               (log[i].ev = "query") => (log[i + 1].ev = "response") )
  /\ [][ (Count("query")' # Count("query"))
           => ( /\ inflight = <<>>
                /\ Len(inflight') = 1
                /\ Count("query")' = Count("query") + 1 ) ]_vars
  /\ [][ (Count("input")' # Count("input") /\ pc' \notin {"raised", "ended"})
           => ( /\ Count("input")' = Count("input") + 1
                /\ Count("query")' = Count("query") + 1
                /\ Len(inflight') = 1
                /\ inflight'[1].text = user_input' ) ]_vars

\* three inputs were forwarded, each answered before the next was read
C23_Witness ==
  /\ pc = "confirm_recv"
  /\ Count("input") = 3
  /\ Count("query") = 5
  /\ Count("response") = 4
  /\ Len(inflight) = 1

\* C24: a speech playback failure does not end the session.
C24_PlaybackFailureIsNotFatal ==
  raised # "PlaybackError"

\* C26: a failure of a query or of a receive step ends the session where
\* it is: the exception leaves the loop, the step is not made again,
\* nothing is displayed for the turn, no query or response is added and
\* no hustler selected; after it nothing changes.
C26_ModelFailureIsFatal ==
  /\ [][ (raised = "" /\ raised' = "ConnectionError")
           => ( /\ pc' = "raised"
                /\ screen' = screen
                /\ Count("display")' = Count("display")
                /\ Count("farewell")' = Count("farewell")
                /\ Count("query")' = Count("query")
                /\ Count("response")' = Count("response")
                /\ inflight' = inflight
                /\ response' = response
                /\ hustler' = hustler ) ]_vars
  /\ [][ (raised = "ConnectionError") => UNCHANGED vars ]_vars

\* the reply to a dialog input was not received
C26_Witness ==
  /\ pc = "raised"
  /\ raised = "ConnectionError"
  /\ Len(inflight) = 1
  /\ log[Len(log)] = Ev("query", prefix(hustler), "user")
  /\ log[Len(log) - 1] = Ev("input", "", "dialog")

\* C27: while the session runs it is in one of Park, Dialog, Confirm and
\* Ended; in Dialog and Confirm the hustler is a registered one and the
\* queries go to it, in Park they go to the narrator; the session starts
\* in Park, and the phase changes only from Park to Dialog or Ended, from
\* Dialog to Confirm, and from Confirm to Dialog, Park or Ended.
C27_PhaseInvariant ==
  /\ [] ( /\ (pc # "raised")
               => /\ Phase \in {"Park", "Dialog", "Confirm", "Ended"}
                  /\ Cardinality({S \in {ParkPcs, DialogPcs, ConfirmPcs,
                                         {"ended"}} : pc \in S}) = 1
          /\ (pc \in DialogPcs \cup ConfirmPcs)
               => /\ hustler \in {HUSTLERS[id] : id \in DOMAIN HUSTLERS}
                  /\ \A i \in 1..Len(inflight) :
                       inflight[i].marker = prefix(hustler)
          /\ (pc \in ParkPcs)
               => \A i \in 1..Len(inflight) : inflight[i].marker = NARRATOR
          /\ (log = <<>> /\ raised = "") => (Phase = "Park") )
  /\ [][ (pc' # "raised" /\ pc # "raised")
           => \/ Phase' = Phase
              \/ <<Phase, Phase'>> \in
                   { <<"Park", "Dialog">>, <<"Park", "Ended">>,
                     <<"Dialog", "Confirm">>, <<"Confirm", "Dialog">>,
                     <<"Confirm", "Park">>, <<"Confirm", "Ended">> } ]_vars

\* a session that went from the park to Viktor's table, to the
\* confirmation, back to the park and ended there
C27_Witness ==
  /\ pc = "ended"
  /\ hustler = None
  /\ Count("header") = 1
  /\ intent = Str(S_leaving_opponent)
  /\ log[Len(log) - 1] = Ev("input", "", "park")
  /\ \E i \in 1..Len(log) : log[i] = Ev("header", "Viktor", "")

\* C28: at the dialog and confirmation prompts every input, one with a
\* leave phrase too, is sent to the hustler and the session waits for
\* the reply; the dialog is left only when a confirmation event with a
\* leave intent was displayed.
C28_LeavePhraseOnlyInPark ==
  /\ [][ ( /\ pc \in {"dialog_prompt", "confirm_prompt"}
           /\ pc' \notin {pc, "raised"} )
         => ( /\ pc' = IF pc = "dialog_prompt" THEN "dialog_recv"
                       ELSE "confirm_recv"
              /\ Count("input")' = Count("input") + 1
              /\ Count("farewell")' = Count("farewell")
              /\ inflight' = <<[marker |-> prefix(hustler),
                                text |-> user_input']>> ) ]_vars
  /\ [][ ( /\ pc \in DialogPcs \cup ConfirmPcs
           /\ pc' \in ParkPcs \cup {"ended"} )
         => ( /\ pc = "confirm_show"
              /\ PlayerIntent(response) \in
                   {Str(S_leaving_park), Str(S_leaving_opponent)} ) ]_vars

\* "Bye" was typed at the dialog prompt and sent to the hustler
C28_Witness ==
  /\ pc = "dialog_recv"
  /\ user_input = <<"B","y","e">>
  /\ _is_leaving_park(user_input)
  /\ inflight = <<[marker |-> prefix(hustler), text |-> user_input]>>

----------------------------------------------------------------------------
(* main: the start of the program *)

\* the process is started and main not yet called
InitMain ==
  /\ pc = "main"
  /\ hustler = None
  /\ intent = Unbound
  /\ response = Unbound
  /\ full_text = <<>>
  /\ user_input = <<>>
  /\ inflight = <<>>
  /\ log = <<>>
  /\ screen = [narrative |-> FALSE, spoken |-> FALSE,
               speaker |-> "", voice |-> ""]
  /\ _hint_shown = FALSE
  /\ voice_enabled = FALSE
  /\ raised = ""
  /\ registry = AtImport
  /\ registered = AtImport
  /\ call = NoCall
  /\ _board = chess_Board
  /\ client = NoClient

\* main, lines 78-95, called with the --voice and --prototype flags while
\* the voice dependencies can be imported or not: the prototype runs
\* instead of the game, or the missing voice support is reported and
\* main returns, or _play_loop is started with the flag
main ==
  /\ pc = "main"
  /\ \E voice \in BOOLEAN, prototype \in BOOLEAN,
        is_voice_available \in BOOLEAN :
       /\ call' = [fn     |-> "main",
                   arg    |-> [voice |-> voice, prototype |-> prototype,
                               is_voice_available |-> is_voice_available],
                   ret    |-> <<>>,
                   raises |-> ""]
       /\ IF prototype
          THEN /\ pc' = "prototype"
               /\ UNCHANGED <<log, voice_enabled>>
          ELSE IF voice /\ ~ is_voice_available
          THEN /\ pc' = "returned"
               /\ log' = <<Ev("voice_unavailable", "", "")>>
               /\ UNCHANGED voice_enabled
          ELSE /\ pc' = "park_scene"
               /\ voice_enabled' = voice
               /\ UNCHANGED log
  /\ client' = IF pc' = "park_scene" THEN aenter(client) ELSE client
  /\ UNCHANGED <<hustler, intent, response, full_text, user_input, inflight,
                 screen, _hint_shown, raised, registry, registered, _board>>

NextMain ==
  \/ main
  \/ Next

SpecMain == InitMain /\ [][NextMain]_vars

\* C25: when the game is started with --voice and the voice
\* dependencies are missing, main reports it once and the session runs,
\* with speech off.
C25_MissingVoiceDisablesSpeech ==
  ( /\ call.fn = "main"
    /\ ~ call.arg.prototype
    /\ call.arg.voice
    /\ ~ call.arg.is_voice_available )
  => ( /\ pc \in ParkPcs \cup DialogPcs \cup ConfirmPcs \cup {"ended", "raised"}
       /\ ~ voice_enabled
       /\ Count("voice_unavailable") = 1 )

----------------------------------------------------------------------------
(* board.py: the board tools the model calls *)

\* what the end tests of python-chess say in the positions a move leads
\* to: a position with nothing to report, a checkmate, a stalemate, a
\* stalemate with bare kings, bare kings, the hundredth reversible
\* half-move, the third occurrence of a position
Positions ==
  [plain      |-> [is_checkmate |-> FALSE, is_stalemate |-> FALSE,
                   is_insufficient_material |-> FALSE,
                   is_fifty_moves |-> FALSE, is_repetition |-> FALSE],
   mate       |-> [is_checkmate |-> TRUE, is_stalemate |-> FALSE,
                   is_insufficient_material |-> FALSE,
                   is_fifty_moves |-> FALSE, is_repetition |-> FALSE],
   stale      |-> [is_checkmate |-> FALSE, is_stalemate |-> TRUE,
                   is_insufficient_material |-> FALSE,
                   is_fifty_moves |-> FALSE, is_repetition |-> FALSE],
   stale_bare |-> [is_checkmate |-> FALSE, is_stalemate |-> TRUE,
                   is_insufficient_material |-> TRUE,
                   is_fifty_moves |-> FALSE, is_repetition |-> FALSE],
   bare       |-> [is_checkmate |-> FALSE, is_stalemate |-> FALSE,
                   is_insufficient_material |-> TRUE,
                   is_fifty_moves |-> FALSE, is_repetition |-> FALSE],
   fifty      |-> [is_checkmate |-> FALSE, is_stalemate |-> FALSE,
                   is_insufficient_material |-> FALSE,
                   is_fifty_moves |-> TRUE, is_repetition |-> FALSE],
   threefold  |-> [is_checkmate |-> FALSE, is_stalemate |-> FALSE,
                   is_insufficient_material |-> FALSE,
                   is_fifty_moves |-> FALSE, is_repetition |-> TRUE]]

\* chess.Move values: a move by its SAN, its UCI text and the position
\* it leads to
Moves ==
  { [san |-> <<"e","4">>, uci |-> <<"e","2","e","4">>, leads |-> "plain"],
    [san |-> <<"Q","h","4","#">>, uci |-> <<"d","8","h","4">>, leads |-> "mate"],
    [san |-> <<"Q","c","7">>, uci |-> <<"d","6","c","7">>, leads |-> "stale"],
    [san |-> <<"K","x","b","7">>, uci |-> <<"a","8","b","7">>, leads |-> "bare"],
    [san |-> <<"K","c","7">>, uci |-> <<"b","6","c","7">>, leads |-> "stale_bare"],
    [san |-> <<"R","h","2">>, uci |-> <<"h","1","h","2">>, leads |-> "fifty"],
    [san |-> <<"N","g","1">>, uci |-> <<"f","3","g","1">>, leads |-> "threefold"] }

\* parsed = None
NoMove == [san |-> <<>>, uci |-> <<>>, leads |-> "none"]

\* chess.Move.null()
NullMove == [san |-> <<"-","-">>, uci |-> <<"0","0","0","0">>,
             leads |-> "null"]

\* _board.legal_moves: the modelled positions have the same moves, but
\* none once the game is mated or stalemated, and only moves that keep
\* the kings bare once they are
legal_moves(board) ==
  IF board.is_checkmate \/ board.is_stalemate THEN {}
  ELSE IF board.is_insufficient_material
       THEN {m \in Moves : Positions[m.leads].is_insufficient_material}
       ELSE Moves

\* texts of the form of a SAN move that name no legal move of the
\* modelled positions; Ne2 fits two knights in a plain position
IllegalSans == { <<"K","e","2">>, <<"e","2","e","5">>, <<"N","e","2">> }

AmbiguousSans == { <<"N","e","2">> }

\* _board.parse_san(san): the move, or the exception python-chess raises.
\* A move may be given with both squares, as in UCI; the null move has
\* four spellings; a text of the form of a move that names no legal move
\* raises IllegalMoveError, or AmbiguousMoveError if it names two
parse_san(board, san) ==
  IF \E m \in legal_moves(board) : san \in {m.san, m.uci}
  THEN [move |-> CHOOSE m \in legal_moves(board) : san \in {m.san, m.uci},
        raises |-> ""]
  ELSE IF san \in {<<"-","-">>, <<"Z","0">>, <<"0","0","0","0">>,
                   <<"@","@","@","@">>}
  THEN [move |-> NullMove, raises |-> ""]
  ELSE IF \/ san \in IllegalSans
          \/ \E m \in Moves : san \in {m.san, m.uci}
  THEN IF san \in AmbiguousSans /\ board.position = "plain"
       THEN [move |-> NoMove, raises |-> "AmbiguousMoveError"]
       ELSE [move |-> NoMove, raises |-> "IllegalMoveError"]
  ELSE [move |-> NoMove, raises |-> "InvalidMoveError"]

\* _board.parse_uci(uci)
parse_uci(board, uci) ==
  IF \E m \in legal_moves(board) : uci = m.uci
  THEN [move |-> CHOOSE m \in legal_moves(board) : uci = m.uci,
        raises |-> ""]
  ELSE IF uci = <<"0","0","0","0">>
  THEN [move |-> NullMove, raises |-> ""]
  ELSE IF uci \in {<<"e","2","e","5">>} \cup {m.uci : m \in Moves}
  THEN [move |-> NoMove, raises |-> "IllegalMoveError"]
  ELSE [move |-> NoMove, raises |-> "InvalidMoveError"]

\* the move is made and the same side is to move again
push_keeps_turn(board, move) ==
  [position |-> move.leads,
   turn |-> board.turn,
   is_checkmate |-> Positions[move.leads].is_checkmate,
   is_stalemate |-> Positions[move.leads].is_stalemate,
   is_insufficient_material |->
     Positions[move.leads].is_insufficient_material,
   is_fifty_moves |-> Positions[move.leads].is_fifty_moves,
   is_repetition |-> Positions[move.leads].is_repetition]

\* _board.push(move)
push(board, move) ==
  [position |-> move.leads,
   turn |-> IF board.turn = "white" THEN "black" ELSE "white",
   is_checkmate |-> Positions[move.leads].is_checkmate,
   is_stalemate |-> Positions[move.leads].is_stalemate,
   is_insufficient_material |->
     Positions[move.leads].is_insufficient_material,
   is_fifty_moves |-> Positions[move.leads].is_fifty_moves,
   is_repetition |-> Positions[move.leads].is_repetition]

\* _board.fen(): the position and the letter of the side to move
fen(board) == <<board.position, IF board.turn = "white" THEN "w" ELSE "b">>

\* a draw reported before a stalemate
_game_status_draw_first(board) ==
  IF board.is_checkmate THEN "checkmate"
  ELSE IF \/ board.is_insufficient_material
          \/ board.is_fifty_moves
          \/ board.is_repetition
  THEN "draw"
  ELSE IF board.is_stalemate THEN "stalemate"
  ELSE "ongoing"

\* _game_status() while _board is board
_game_status(board) ==
  IF board.is_checkmate THEN "checkmate"
  ELSE IF board.is_stalemate THEN "stalemate"
  ELSE IF \/ board.is_insufficient_material
          \/ board.is_fifty_moves
          \/ board.is_repetition
  THEN "draw"
  ELSE "ongoing"

\* a tool call that raised has no result
NoResult == <<>>

\* the answer of new_game without the assignment to _board
new_game_keeps_board(board) ==
  [board  |-> board,
   raises |-> "",
   ret    |-> ("fen" :> fen(chess_Board)) @@ ("game_status" :> "ongoing") @@
              ("turn" :> "white")]

\* new_game: the board it leaves and the JSON object it answers with
new_game(board) ==
  [board  |-> chess_Board,
   raises |-> "",
   ret    |-> ("fen" :> fen(chess_Board)) @@ ("game_status" :> "ongoing") @@
              ("turn" :> "white")]

\* make_move with args["move"] = move
make_move(board, move) ==
  LET move_input == strip(move)
      as_san == parse_san(board, move_input)
      as_uci == parse_uci(board, move_input)
      parsed == IF as_san.raises = "" THEN as_san.move
                ELSE IF as_uci.raises = "" THEN as_uci.move
                ELSE NoMove
  IN  IF as_san.raises \notin {"", "InvalidMoveError", "AmbiguousMoveError"}
      THEN [board |-> board, raises |-> as_san.raises, ret |-> NoResult]
      ELSE IF parsed = NoMove
      THEN [board  |-> board,
            raises |-> "",
            ret    |-> ("valid" :> FALSE) @@
                       ("error" :> <<"Invalid notation: ", move_input>>) @@
                       ("fen" :> fen(board)) @@
                       ("game_status" :> _game_status(board))]
      ELSE IF parsed \notin legal_moves(board)
      THEN [board  |-> board,
            raises |-> "",
            ret    |-> ("valid" :> FALSE) @@
                       ("error" :> <<"Illegal move: ", move_input>>) @@
                       ("fen" :> fen(board)) @@
                       ("game_status" :> _game_status(board))]
      ELSE [board  |-> push(board, parsed),
            raises |-> "",
            ret    |-> ("valid" :> TRUE) @@
                       ("san" :> parsed.san) @@
                       ("uci" :> parsed.uci) @@
                       ("fen" :> fen(push(board, parsed))) @@
                       ("game_status" :>
                          _game_status(push(board, parsed))) @@
                       ("turn" :> push(board, parsed).turn)]

\* get_position
get_position(board) ==
  [board  |-> board,
   raises |-> "",
   ret    |-> ("fen" :> fen(board)) @@
              ("game_status" :> _game_status(board)) @@
              ("turn" :> board.turn)]

\* the count taken of all moves, legal or not
get_legal_moves_counts_all(board) ==
  [board  |-> board,
   raises |-> "",
   ret    |-> ("legal_moves" :> {m.san : m \in legal_moves(board)}) @@
              ("count" :> Cardinality(Moves))]

\* get_legal_moves
get_legal_moves(board) ==
  [board  |-> board,
   raises |-> "",
   ret    |-> ("legal_moves" :> {m.san : m \in legal_moves(board)}) @@
              ("count" :> Cardinality(legal_moves(board)))]

\* the texts make_move is called with: each move in SAN and in UCI, a
\* padded one, moves that are illegal or ambiguous, texts that are no
\* notation, the null move, and "" for a call without the argument
MoveInputs ==
  {m.san : m \in Moves} \cup {m.uci : m \in Moves} \cup
  { <<" ","e","4","\n">>, <<"K","e","2">>, <<"e","2","e","5">>, <<"N","e","2">>, <<"x","y","z">>, <<"E","2","E","4">>, <<"0","0","0","0">>, <<>> }

\* the model calls one of the four tools of the plaza server
CallTool ==
  /\ pc = "import"
  /\ \/ \E move \in MoveInputs :
          /\ call' = [fn     |-> "make_move",
                      arg    |-> [move |-> move, _board |-> _board],
                      ret    |-> make_move(_board, move).ret,
                      raises |-> make_move(_board, move).raises]
          /\ _board' = make_move(_board, move).board
     \/ \E tool \in {"new_game", "get_position", "get_legal_moves"} :
          LET result == IF tool = "new_game" THEN new_game(_board)
                        ELSE IF tool = "get_position"
                             THEN get_position(_board)
                             ELSE get_legal_moves(_board)
          IN  /\ call' = [fn     |-> tool,
                          arg    |-> [_board |-> _board],
                          ret    |-> result.ret,
                          raises |-> result.raises]
              /\ _board' = result.board
  /\ UNCHANGED <<session_vars, registry, registered>>

NextBoard == CallTool

SpecBoard == InitCalls /\ [][NextBoard]_vars

\* the boards a tool call may leave
ToolBoards(board) ==
  {new_game(board).board, get_position(board).board,
   get_legal_moves(board).board} \cup
  {make_move(board, move).board : move \in MoveInputs}

\* while the session waits for a reply, the model calls a tool: the
\* result goes to the model, the session has the board
ModelCallsTool ==
  /\ pc \in {"park_scene_recv", "park_recv", "dialog_greet_recv",
             "dialog_recv", "confirm_recv"}
  /\ inflight # <<>>
  /\ _board' \in ToolBoards(_board)
  /\ UNCHANGED <<session_vars, registry, registered, call>>

NextPlay ==
  \/ ModelCallsTool
  \/ Next

SpecPlay == Init /\ [][NextPlay]_vars

\* C22: make_move with a text that is no notation, is ambiguous or names
\* a move that is illegal in the position, in SAN or in UCI form, raises
\* nothing and answers valid = false with an error message, and the
\* board is as it was before the call.
C22_BadMoveIsReportedNotRaised ==
  ( /\ call.fn = "make_move"
    /\ \A m \in legal_moves(call.arg._board) :
         strip(call.arg.move) \notin {m.san, m.uci} )
  => ( /\ call.raises = ""
       /\ "valid" \in DOMAIN call.ret
       /\ call.ret["valid"] = FALSE
       /\ "error" \in DOMAIN call.ret
       /\ _board = call.arg._board )

\* C29: the board changes only in a step in which the session does
\* nothing, a tool call of the model while a reply is awaited; and the
\* event a display step is given is the one the parser returned for the
\* reply, its chess fields included.
C29_SessionLeavesBoardAlone ==
  /\ [][ (_board' # _board)
           => ( /\ UNCHANGED session_vars
                /\ pc \in {"park_scene_recv", "park_recv",
                           "dialog_greet_recv", "dialog_recv",
                           "confirm_recv"} ) ]_vars
  /\ [][ (session_vars' # session_vars) => (_board' = _board) ]_vars
  /\ [] ( (response # Unbound) => (response = _get_response(full_text)) )
  /\ [][ (pc \in {"park_scene_show", "park_show", "dialog_greet_show",
                  "dialog_show", "confirm_show"})
           => (response' = response) ]_vars

\* black was mated during a dialog turn whose event, with its fen and
\* moves, was displayed, and the session, back at the table's prompt,
\* has the mated board
C29_Witness ==
  /\ pc = "dialog_prompt"
  /\ Count("input") = 2
  /\ _board.is_checkmate
  /\ response = JsonDocs["{fen}"]
  /\ "fen" \in DOMAIN response.v
  /\ screen.spoken

\* C30: a board tool reports a game_status of ongoing, checkmate,
\* stalemate or draw: checkmate if the position is one, else stalemate if
\* it is one, else draw for bare kings, fifty moves or a repetition, else
\* ongoing; and new_game, make_move and get_position answer with the fen
\* and the game_status of the board as the call leaves it.
C30_GameStatusOfBoardAfterCall ==
  (call.fn \in {"new_game", "make_move", "get_position"}
     /\ call.raises = "")
  => ( /\ {"fen", "game_status"} \subseteq DOMAIN call.ret
       /\ call.ret["fen"] =
            <<_board.position, IF _board.turn = "white" THEN "w" ELSE "b">>
       /\ call.ret["game_status"] \in
            {"ongoing", "checkmate", "stalemate", "draw"}
       /\ (_board.is_checkmate) => (call.ret["game_status"] = "checkmate")
       /\ (~ _board.is_checkmate /\ _board.is_stalemate)
            => (call.ret["game_status"] = "stalemate")
       /\ ( /\ ~ _board.is_checkmate
            /\ ~ _board.is_stalemate
            /\ \/ _board.is_insufficient_material
               \/ _board.is_fifty_moves
               \/ _board.is_repetition )
            => (call.ret["game_status"] = "draw")
       /\ ( /\ ~ _board.is_checkmate
            /\ ~ _board.is_stalemate
            /\ ~ _board.is_insufficient_material
            /\ ~ _board.is_fifty_moves
            /\ ~ _board.is_repetition )
            => (call.ret["game_status"] = "ongoing") )

\* a move left bare kings in a stalemate, reported as stalemate
C30_Witness ==
  /\ call.fn = "make_move"
  /\ call.raises = ""
  /\ call.ret["valid"]
  /\ _board.is_stalemate
  /\ _board.is_insufficient_material
  /\ call.ret["game_status"] = "stalemate"
  /\ call.ret["fen"] = <<"stale_bare", "w">>

\* C31: make_move with the SAN or the UCI text of a legal move makes
\* that move and no other: the board is the position the move leads to
\* with the other side to move, and the answer has valid = true, the
\* move's san and uci, and the fen, game_status and turn of that board.
C31_LegalMoveIsApplied ==
  (call.fn = "make_move") =>
    \A m \in legal_moves(call.arg._board) :
      (strip(call.arg.move) \in {m.san, m.uci}) =>
        /\ call.raises = ""
        /\ DOMAIN call.ret =
             {"valid", "san", "uci", "fen", "game_status", "turn"}
        /\ call.ret["valid"] = TRUE
        /\ call.ret["san"] = m.san
        /\ call.ret["uci"] = m.uci
        /\ _board.position = m.leads
        /\ _board.turn # call.arg._board.turn
        /\ _board.turn \in {"white", "black"}
        /\ call.ret["turn"] = _board.turn
        /\ call.ret["fen"] =
             <<m.leads, IF _board.turn = "white" THEN "w" ELSE "b">>
        /\ call.ret["game_status"] =
             IF m.leads = "mate" THEN "checkmate"
             ELSE IF m.leads \in {"stale", "stale_bare"} THEN "stalemate"
             ELSE IF m.leads \in {"bare", "fifty", "threefold"} THEN "draw"
             ELSE "ongoing"

\* black answered e4 with the queen's mate, given in UCI form
C31_Witness ==
  /\ call.fn = "make_move"
  /\ call.arg.move = <<"d","8","h","4">>
  /\ call.arg._board.turn = "black"
  /\ call.raises = ""
  /\ call.ret["valid"] = TRUE
  /\ call.ret["san"] = <<"Q","h","4","#">>
  /\ call.ret["turn"] = "white"
  /\ call.ret["game_status"] = "checkmate"

\* C32: new_game, in whatever state the board is, leaves the starting
\* position with white to move and no move made, and answers with its
\* fen, ongoing and white; a second new_game right after it changes
\* nothing and answers the same.
C32_NewGameResets ==
  /\ [] ( (call.fn = "new_game") =>
            /\ call.raises = ""
            /\ _board = chess_Board
            /\ _board.position = "start"
            /\ _board.turn = "white"
            /\ call.ret = ("fen" :> <<"start", "w">>) @@
                          ("game_status" :> "ongoing") @@
                          ("turn" :> "white") )
  /\ [][ (call.fn = "new_game" /\ call'.fn = "new_game")
           => (_board' = _board /\ call'.ret = call.ret) ]_vars

\* a mated board was reset
C32_Witness ==
  /\ call.fn = "new_game"
  /\ call.arg._board.is_checkmate
  /\ call.arg._board.turn = "white"
  /\ _board = chess_Board

\* C33: get_position and get_legal_moves leave the board as it is, and
\* get_legal_moves lists the legal moves of the position and counts as
\* many as it lists.
C33_ReadOnlyTools ==
  (call.fn \in {"get_position", "get_legal_moves"}) =>
    /\ call.raises = ""
    /\ _board = call.arg._board
    /\ (call.fn = "get_legal_moves") =>
         /\ DOMAIN call.ret = {"legal_moves", "count"}
         /\ call.ret["count"] = Cardinality(call.ret["legal_moves"])
         /\ call.ret["legal_moves"] = {m.san : m \in legal_moves(_board)}
    /\ (call.fn = "get_position") =>
         /\ call.ret["fen"] = fen(_board)
         /\ call.ret["turn"] = _board.turn

\* the moves were listed with bare kings on the board: two are left
C33_Witness ==
  /\ call.fn = "get_legal_moves"
  /\ _board.is_insufficient_material
  /\ ~ _board.is_stalemate
  /\ call.ret["count"] = 2

----------------------------------------------------------------------------
(* the display, the park entry and the query markers *)

ShowPcs == {"park_scene_show", "park_show", "dialog_greet_show",
            "dialog_show", "confirm_show"}

\* C34: when an event is displayed at a hustler's table, in the dialog
\* or its confirmation, the speaker is that hustler whatever the event's
\* speaker field says; in the park the speaker is the registered hustler
\* the speaker field names, and nobody if it names none.  Speech is
\* played only with voice enabled, a non-empty spoken_tts text and a
\* speaker, and in that speaker's voice; it is played in the step that
\* prints the event, which reads no input.
C34_SpeakerAndSpeech ==
  [][ (pc \in ShowPcs /\ log' # log) =>
        LET speaker_id == Get(response, "speaker", Str(<<>>))
            spoken_tts == Get(response, "spoken_tts", Str(<<>>))
            speaker ==
              IF pc \in DialogPcs \cup ConfirmPcs THEN hustler
              ELSE IF speaker_id.t = "str" /\ speaker_id.v # <<>>
                      /\ speaker_id.v \in {S_eddie, S_viktor, S_mei, S_marco}
                   THEN HUSTLERS[speaker_id.v]
                   ELSE None
        IN  /\ (pc \in DialogPcs \cup ConfirmPcs) => (speaker # None)
            /\ screen'.spoken => (screen'.speaker = speaker.name)
            /\ (screen'.voice # "")
                 => ( /\ voice_enabled
                      /\ spoken_tts.t = "str"
                      /\ spoken_tts.v # <<>>
                      /\ speaker # None
                      /\ screen'.voice = speaker.voice )
            /\ log'[Len(log) + 1] = Ev("display", "", "")
            /\ user_input' = user_input
            /\ Count("input")' = Count("input") ]_vars

\* at Viktor's table an event naming eddie as its speaker was displayed
\* and spoken as Viktor
C34_Witness ==
  /\ pc = "dialog_prompt"
  /\ hustler = HUSTLERS[S_viktor]
  /\ response = JsonDocs["{approach_eddie}"]
  /\ log[Len(log)].ev = "display"
  /\ screen.speaker = "Viktor"
  /\ screen.voice = HUSTLERS[S_viktor].voice

SceneQuery == Ev("query", NARRATOR, "scene")

\* C35: whenever a dialog is left for the park, the session goes through
\* the park entry again: it sends the scene query to the narrator and
\* displays the reply before it reads park input.  The hint is printed
\* at most once, after the first scene.
C35_ParkReentryDescribesScene ==
  /\ [][ (pc \in DialogPcs \cup ConfirmPcs /\ pc' \in ParkPcs)
           => (pc = "confirm_show" /\ pc' = "park_scene") ]_vars
  /\ [][ (pc = "park_scene" /\ pc' \notin {pc, "raised"})
           => ( /\ pc' = "park_scene_recv"
                /\ log' = Append(log, SceneQuery)
                /\ inflight' =
                     <<[marker |-> "[NARRATOR]",
                        text |-> <<"I just entered the park. Describe what I see.">>]>> ) ]_vars
  /\ [] ( /\ Count("hint") <= 1
          /\ _hint_shown <=> (Count("hint") = 1)
          /\ \A i \in 1..Len(log) : (log[i].ev = "hint") => (i = 4)
          /\ \A i \in 1..Len(log) :
               (log[i] = Ev("input", "", "park"))
               => \E j \in 1..(i - 3) :
                    /\ log[j] = SceneQuery
                    /\ log[j + 1].ev = "response"
                    /\ log[j + 2].ev = "display"
                    /\ \A k \in j..i : log[k].ev # "header" )

\* back in the park after a dialog: the scene was asked for and displayed
\* a second time, and the hint was not printed again
C35_Witness ==
  /\ pc = "park_prompt"
  /\ Count("header") = 1
  /\ Cardinality({i \in 1..Len(log) : log[i] = SceneQuery}) = 2
  /\ Count("hint") = 1
  /\ log[Len(log)].ev = "display"
  /\ log[Len(log) - 2] = SceneQuery

\* C36: displaying the event of the park entry never changes the phase,
\* whatever its next_action is: the session goes on to the park prompt
\* with no hustler selected, and a dialog is entered only after a park
\* input's event was displayed.
C36_SceneEventSelectsNobody ==
  /\ [][ (pc = "park_scene_show" /\ pc' \notin {pc, "raised"})
           => ( /\ pc' = "park_prompt"
                /\ hustler' = hustler
                /\ Count("header")' = Count("header") ) ]_vars
  /\ [][ (pc \in ParkPcs /\ pc' \in DialogPcs)
           => (pc = "park_show" /\ pc' = "dialog_greet") ]_vars
  /\ [] ( \A i \in 1..Len(log) :
            (log[i].ev = "header")
            => ( /\ i > 4
                 /\ log[i - 4] = Ev("input", "", "park")
                 /\ log[i - 3] = Ev("query", NARRATOR, "user")
                 /\ log[i - 1].ev = "display" ) )

\* the scene's event asked to approach Fast Eddie and the session waits
\* for the first input in the park
C36_Witness ==
  /\ pc = "park_prompt"
  /\ Count("input") = 0
  /\ Count("display") = 1
  /\ hustler = None
  /\ Get(response, "next_action", Str(S_select_hustler))
       = Str(S_approach \o S_eddie)

\* C37: every query sent in the park starts with [NARRATOR]; every
\* query sent in a dialog or its confirmation starts with
\* [TALKING TO <name>] for the hustler selected when the dialog was
\* entered, and that hustler stays the same until the dialog is left.
C37_RoleTagging ==
  /\ [][ (Len(inflight') > Len(inflight)) =>
           LET q == inflight'[Len(inflight')]
           IN  /\ q.marker =
                    IF pc \in ParkPcs THEN "[NARRATOR]"
                    ELSE "[TALKING TO " \o hustler.name \o "]"
               /\ log'[Len(log')].ev = "query"
               /\ log'[Len(log')].marker = q.marker
               /\ pc \in ParkPcs \cup DialogPcs \cup ConfirmPcs ]_vars
  /\ [][ ( /\ pc \in DialogPcs \cup ConfirmPcs
           /\ pc' \in DialogPcs \cup ConfirmPcs )
         => hustler' = hustler ]_vars
  /\ [] ( \A i \in 1..Len(log) :
            (log[i].ev = "query")
            => \/ log[i].marker = "[NARRATOR]"
               \/ \E j \in 1..(i - 1) :
                    /\ log[j].ev = "header"
                    /\ log[j].marker \in
                         {HUSTLERS[id].name : id \in DOMAIN HUSTLERS}
                    /\ log[i].marker = "[TALKING TO " \o log[j].marker \o "]"
                    /\ \A k \in (j + 1)..i : log[k].ev # "header" )
  /\ [] ( (pc \in (DialogPcs \cup ConfirmPcs) \ {"dialog_greet"})
            => \E j \in 1..Len(log) :
                 /\ log[j] = Ev("header", hustler.name, "")
                 /\ \A k \in (j + 1)..Len(log) :
                      log[k].ev \notin {"header", "farewell"}
                      /\ log[k] # SceneQuery )

\* the confirmation input at Viktor's table went out tagged for Viktor
C37_Witness ==
  /\ pc = "confirm_recv"
  /\ hustler = HUSTLERS[S_viktor]
  /\ inflight = <<[marker |-> "[TALKING TO Viktor]", text |-> user_input]>>
  /\ log[Len(log)] = Ev("query", "[TALKING TO Viktor]", "user")
  /\ log[Len(log) - 1] = Ev("input", "", "confirm")

\* C38: the park is left for a dialog only when the displayed event's
\* next_action is exactly approach_<id> for a registered id, and the
\* dialog is with that hustler; approach_approach_eddie, which is no such
\* string, selects nobody.
C38_OnlyExactApproachSelects ==
  [][ (pc = "park_show" /\ pc' \in DialogPcs)
        => \E id \in {S_eddie, S_viktor, S_mei, S_marco} :
             /\ Get(response, "next_action", Str(S_select_hustler))
                  = Str(S_approach \o id)
             /\ hustler' = HUSTLERS[id] ]_vars

\* C39: once a reply of the model is received, whatever its content, the
\* session displays an event and goes on to an input prompt, to the
\* next query of the phase change the event asks for, or to its end;
\* a reply that does not parse leaves the session in the phase it is in,
\* at that phase's prompt (at the dialog prompt after a confirmation).
\* A failure of the voice playback is left aside here.
C39_NoStallAfterResponse ==
  /\ [][ (pc \in ShowPcs /\ raised' # "PlaybackError")
           => ( /\ pc' \in {"park_prompt", "dialog_prompt",
                            "confirm_prompt", "dialog_greet",
                            "park_scene", "ended"}
                /\ Len(log') > Len(log)
                /\ log'[Len(log) + 1] = Ev("display", "", "") ) ]_vars
  /\ [][ ( /\ pc \in ShowPcs
           /\ raised' # "PlaybackError"
           /\ json_loads(clean(full_text)) = JSONDecodeError )
         => pc' = IF pc \in ParkPcs THEN "park_prompt"
                  ELSE "dialog_prompt" ]_vars

\* C40: the whole session runs over one client: it connects once, when
\* _play_loop starts and before the first query of the park, every
\* query of every phase is sent over it, no phase change makes a new
\* one, and it disconnects only when the session ends.  What was said
\* over it only grows.
C40_OneConnection ==
  /\ [] ( /\ client.entered <= 1
          /\ client.connected
               <=> (pc \in ParkPcs \cup DialogPcs \cup ConfirmPcs)
          /\ client.turns = Count("query") )
  /\ [][ (client'.entered # client.entered)
           => ( /\ pc = "main"
                /\ pc' = "park_scene"
                /\ client.entered = 0
                /\ Count("query") = 0 ) ]_vars
  /\ [][ (client.connected /\ ~ client'.connected)
           => pc' \in {"ended", "raised"} ]_vars
  /\ [][ (Len(inflight') > Len(inflight))
           => (client.connected /\ client'.turns = client.turns + 1) ]_vars
  /\ [][ /\ client'.turns >= client.turns
         /\ Len(log') >= Len(log)
         /\ SubSeq(log', 1, Len(log)) = log ]_vars

\* a session started by main that went to a table and ended there: its
\* five queries went over the one client, which is disconnected now
C40_Witness ==
  /\ call.fn = "main"
  /\ pc = "ended"
  /\ Count("header") = 1
  /\ client = [entered |-> 1, connected |-> FALSE, turns |-> 5]

====
